---- MODULE Spec2Model ----
(***************************************************************************)
(* A model of the SageMaker orchestrator of ZenML                          *)
(* (src/zenml/integrations/aws/orchestrators/sagemaker_orchestrator.py)    *)
(* and of the step run models (src/zenml/models/v2/core/step_run.py).      *)
(*                                                                         *)
(* Python strings are TLA+ strings; a character of s is SubSeq(s, i, i).   *)
(* Python's None is the model value None below.  An operation that raises  *)
(* leaves a record [kind |-> "raise", exc |-> <exception class>].          *)
(***************************************************************************)
EXTENDS Integers, Sequences, FiniteSets, TLC

VARIABLES
    \* SagemakerOrchestrator.fetch_status
    fs_pc,          \* position inside fetch_status
    fs_run,         \* the PipelineRunResponse given to fetch_status
    fs_env,         \* what the connector / AWS answer during the call
    fs_sessions,    \* number of SageMaker sessions created so far
    fs_describe,    \* ARNs passed to describe_pipeline_execution, in order
    fs_status,      \* the PipelineExecutionStatus string that came back
    fs_result,      \* what fetch_status returned or raised
    \* the module-level ARN functions and generate_schedule_metadata
    sf_fn,          \* the function under call
    sf_in,          \* its argument: [arg |-> string, form |-> how it was built]
    sf_inner,       \* what a call made by the function under call answered
    sf_out,         \* Pending, or what the call returned or raised
    \* SagemakerOrchestrator.prepare_or_run_pipeline
    pr_pc,          \* position inside prepare_or_run_pipeline
    pr_in,          \* deployment, orchestrator config and base environment
    pr_environment, \* the dictionary `environment`, which the call mutates
    pr_steps,       \* sagemaker_steps, the steps built so far
    pr_loc,         \* the other local variables of the call
    pr_calls,       \* remote calls made and dictionaries yielded, in order
    pr_result,      \* Pending, or how the generator ended
    \* SagemakerOrchestrator.get_orchestrator_run_id on a worker
    wk_environ,     \* os.environ of the worker process
    wk_result,      \* what get_orchestrator_run_id returned or raised
    \* StepRunResponse properties and StepRunFilter.get_custom_filters
    sr_fn,          \* the property or method under call
    sr_obj,         \* the StepRunResponse or StepRunFilter it is called on
    sr_out          \* Pending, or what the call returned or raised

varsFS == <<fs_pc, fs_run, fs_env, fs_sessions, fs_describe, fs_status, fs_result>>

varsSF == <<sf_fn, sf_in, sf_inner, sf_out>>

varsPR == <<pr_pc, pr_in, pr_environment, pr_steps, pr_loc, pr_calls, pr_result>>

varsWK == <<wk_environ, wk_result>>

varsSR == <<sr_fn, sr_obj, sr_out>>

vars == <<varsFS, varsSF, varsPR, varsWK, varsSR>>

None == "<None>"

Raise(exc) == [kind |-> "raise", exc |-> exc]

Return(v) == [kind |-> "return", value |-> v]

Pending == [kind |-> "pending"]

(***************************************************************************)
(* Python string operations                                                *)
(***************************************************************************)

Min(S) == CHOOSE x \in S : \A y \in S : x <= y

\* s[i-1:j-1] of Python with 1-based inclusive bounds; "" when empty
Sub(s, i, j) == IF j < i THEN "" ELSE SubSeq(s, i, j)

\* p occurs in s at position i (1-based)
OccursAt(s, p, i) ==
    /\ i >= 1
    /\ i + Len(p) - 1 <= Len(s)
    /\ Sub(s, i, i + Len(p) - 1) = p

\* s.find(p, from - 1) + 1: the first position >= from where p occurs, or 0
Find(s, p, from) ==
    LET hits == {i \in from..(Len(s) - Len(p) + 1) : OccursAt(s, p, i)}
    IN IF hits = {} THEN 0 ELSE Min(hits)

\* s.startswith(p)
StartsWith(s, p) == OccursAt(s, p, 1)

\* p in s
Contains(s, p) == Find(s, p, 1) # 0

\* s.split(sep), for a non-empty sep
RECURSIVE Split(_, _)
Split(s, sep) ==
    LET i == Find(s, sep, 1) IN
    IF i = 0 THEN <<s>>
    ELSE <<Sub(s, 1, i - 1)>> \o Split(Sub(s, i + Len(sep), Len(s)), sep)

\* re.search(pre + "(.*?)" + post, s).group(1), or None without a match,
\* for pre and post without a line break.  The "." of the pattern matches
\* every character but the line break, so a match lies on one line: it
\* starts at the first occurrence of pre whose first post behind it comes
\* before any line break, and the lazy group ends at that post.
SearchLazy(s, pre, post) ==
    LET End(i) == Find(s, post, i + Len(pre))
        starts == {i \in 1..Len(s) :
                      /\ OccursAt(s, pre, i)
                      /\ End(i) # 0
                      /\ ~Contains(Sub(s, i + Len(pre), End(i) - 1), "\n")}
    IN IF starts = {} THEN None
       ELSE Sub(s, Min(starts) + Len(pre), End(Min(starts)) - 1)

\* re.search(pre + "(.*)", s).group(1), or None: what stands behind the
\* first occurrence of pre, up to the end of its line
SearchRest(s, pre) ==
    LET i == Find(s, pre, 1)
        line_break == Find(s, "\n", i + Len(pre))
    IN IF i = 0 THEN None
       ELSE Sub(s, i + Len(pre),
                IF line_break = 0 THEN Len(s) ELSE line_break - 1)

\* The strings x1 \o ... \o xn with every xi in pieces and 1 <= n <= max
RECURSIVE Words(_, _)
Words(pieces, max) ==
    IF max = 0 THEN {}
    ELSE pieces \cup {w \o x : w \in Words(pieces, max - 1), x \in pieces}

(***************************************************************************)
(* fetch_status                                                            *)
(***************************************************************************)

\* zenml.constants.METADATA_ORCHESTRATOR_RUN_ID, the key of run.run_metadata
METADATA_ORCHESTRATOR_RUN_ID == "orchestrator_run_id"

\* The members of zenml.enums.ExecutionStatus
ExecutionStatus ==
    {"initializing", "failed", "completed", "running", "cached"}

\* Values describe_pipeline_execution may answer: the five of the mapping,
\* the other documented SageMaker state, and strings that are none of them.
RemoteStatuses ==
    {"Executing", "Stopping", "Stopped", "Failed", "Succeeded",
     "executing", "Unknown", ""}

\* The ARNs a run may carry
RunArns ==
    {"arn:aws:sagemaker:eu:1:pipeline/p/execution/a",
     "arn:aws:sagemaker:eu:1:pipeline/p/execution/b"}

\* The id of this orchestrator and of another one
SelfId == "orchestrator-self"

OtherId == "orchestrator-other"

\* run.stack: None, or the id of the stack's orchestrator component
\* run.run_metadata: a dictionary, here with at most the run-id key
\* run.orchestrator_run_id: None or a string
Runs ==
    [stack : {None, SelfId, OtherId},
     run_metadata : {<<>>} \cup
        {[k \in {METADATA_ORCHESTRATOR_RUN_ID} |-> a] : a \in RunArns},
     orchestrator_run_id : {None} \cup RunArns]

\* The status mapping at the end of fetch_status
MapStatus_StoppingFails(status) ==
    IF status \in {"Executing"} THEN Return("running")
    ELSE IF status \in {"Stopping", "Stopped", "Failed"} THEN Return("failed")
    ELSE IF status \in {"Succeeded"} THEN Return("completed")
    ELSE Raise("ValueError")

MapStatus(status) ==
    IF status \in {"Executing", "Stopping"} THEN Return("running")
    ELSE IF status \in {"Stopped", "Failed"} THEN Return("failed")
    ELSE IF status \in {"Succeeded"} THEN Return("completed")
    ELSE Raise("ValueError")

\* The choice of the execution ARN: [ok |-> TRUE, arn |-> ...] or not ok
SelectRunId_AttributeFirst(run) ==
    IF run.orchestrator_run_id # None
    THEN [ok |-> TRUE, arn |-> run.orchestrator_run_id]
    ELSE IF METADATA_ORCHESTRATOR_RUN_ID \in DOMAIN run.run_metadata
    THEN [ok |-> TRUE, arn |-> run.run_metadata[METADATA_ORCHESTRATOR_RUN_ID]]
    ELSE [ok |-> FALSE, arn |-> None]

SelectRunId(run) ==
    IF METADATA_ORCHESTRATOR_RUN_ID \in DOMAIN run.run_metadata
    THEN [ok |-> TRUE, arn |-> run.run_metadata[METADATA_ORCHESTRATOR_RUN_ID]]
    ELSE IF run.orchestrator_run_id # None
    THEN [ok |-> TRUE, arn |-> run.orchestrator_run_id]
    ELSE [ok |-> FALSE, arn |-> None]

InitFS ==
    /\ fs_pc = "start"
    /\ fs_run \in Runs
    /\ fs_env \in [connector_ok : BOOLEAN]
    /\ fs_sessions = 0
    /\ fs_describe = <<>>
    /\ fs_status = None
    /\ fs_result = Pending

\* No fetch_status call is in progress
IdleFS ==
    /\ fs_pc = "idle"
    /\ fs_run = None
    /\ fs_env = None
    /\ fs_sessions = 0
    /\ fs_describe = <<>>
    /\ fs_status = None
    /\ fs_result = Pending

\* Lines 830-845: the stack check, the ownership assertion, the session.
\* _get_sagemaker_session raises RuntimeError when the connector hands back
\* something that is no boto3 session.
FetchStatusBegin ==
    /\ fs_pc = "start"
    /\ IF fs_run.stack = None
       THEN /\ fs_result' = Raise("ValueError")
            /\ fs_pc' = "done"
            /\ UNCHANGED fs_sessions
       ELSE IF fs_run.stack # SelfId
       THEN /\ fs_result' = Raise("AssertionError")
            /\ fs_pc' = "done"
            /\ UNCHANGED fs_sessions
       ELSE IF ~fs_env.connector_ok
       THEN /\ fs_result' = Raise("RuntimeError")
            /\ fs_pc' = "done"
            /\ UNCHANGED fs_sessions
       ELSE /\ fs_sessions' = fs_sessions + 1
            /\ fs_pc' = "lookup"
            /\ UNCHANGED fs_result
    /\ UNCHANGED <<fs_run, fs_env, fs_describe, fs_status>>
    /\ UNCHANGED <<varsSF, varsPR, varsWK, varsSR>>

\* Lines 847-859: pick the ARN and ask SageMaker for the execution's status
FetchStatusDescribe ==
    /\ fs_pc = "lookup"
    /\ LET sel == SelectRunId(fs_run) IN
       IF sel.ok
       THEN \E status \in RemoteStatuses :
               /\ fs_describe' = Append(fs_describe, sel.arn)
               /\ fs_status' = status
               /\ fs_pc' = "map"
               /\ UNCHANGED fs_result
       ELSE /\ fs_result' = Raise("ValueError")
            /\ fs_pc' = "done"
            /\ UNCHANGED <<fs_describe, fs_status>>
    /\ UNCHANGED <<fs_run, fs_env, fs_sessions>>
    /\ UNCHANGED <<varsSF, varsPR, varsWK, varsSR>>

\* Lines 861-870: the mapping to ExecutionStatus
FetchStatusMap ==
    /\ fs_pc = "map"
    /\ fs_result' = MapStatus(fs_status)
    /\ fs_pc' = "done"
    /\ UNCHANGED <<fs_run, fs_env, fs_sessions, fs_describe, fs_status>>
    /\ UNCHANGED <<varsSF, varsPR, varsWK, varsSR>>

NextFS == FetchStatusBegin \/ FetchStatusDescribe \/ FetchStatusMap

(***************************************************************************)
(* dissect_pipeline_execution_arn                                          *)
(***************************************************************************)

\* Lines 135-136
RegionOfExecutionArn(arn) == SearchLazy(arn, "sagemaker:", ":")

\* Lines 139-142
PipelineOfExecutionArn(arn) == SearchLazy(arn, "pipeline/", "/execution")

\* Lines 145-146
ExecutionOfExecutionArn(arn) == SearchRest(arn, "execution/")

dissect_pipeline_execution_arn(arn) ==
    Return(<<RegionOfExecutionArn(arn),
             PipelineOfExecutionArn(arn),
             ExecutionOfExecutionArn(arn)>>)

\* Longest pipeline name, counted in pieces of NamePieces
MaxNameParts == 2

\* Longest string of the other inputs, counted in pieces of ArnPieces
MaxArnPieces == 3

Regions == {"eu", "us-east-1"}

Accounts == {"1", "123456789012"}

NamePieces == {"p", "-", "execution"}

\* SageMaker pipeline names: letters, digits and inner hyphens
PipelineNames ==
    {n \in Words(NamePieces, MaxNameParts) :
        Sub(n, 1, 1) # "-" /\ Sub(n, Len(n), Len(n)) # "-"}

ExecutionIds == {"a", "x1y2", "0"}

\* 'arn:aws:sagemaker:REGION:ACCOUNT:pipeline/NAME/execution/ID'
ExecutionArn(region, account, name, id) ==
    "arn:aws:sagemaker:" \o region \o ":" \o account \o ":pipeline/"
        \o name \o "/execution/" \o id

ArnPieces ==
    {"sagemaker:", "pipeline/", "/execution", "execution/", "a", ":", "\n"}

InitArn ==
    /\ sf_fn = "dissect_pipeline_execution_arn"
    /\ sf_inner = Pending
    /\ sf_out = Pending
    /\ \/ \E r \in Regions, a \in Accounts, n \in PipelineNames, e \in ExecutionIds :
             sf_in = [arg |-> ExecutionArn(r, a, n, e),
                      form |-> [kind |-> "arn", region |-> r, name |-> n, id |-> e]]
       \/ \E w \in Words(ArnPieces, MaxArnPieces) \cup {""} :
             sf_in = [arg |-> w, form |-> [kind |-> "other"]]

DissectPipelineExecutionArn ==
    /\ sf_fn = "dissect_pipeline_execution_arn"
    /\ sf_out = Pending
    /\ sf_out' = dissect_pipeline_execution_arn(sf_in.arg)
    /\ UNCHANGED <<sf_fn, sf_in, sf_inner>>
    /\ UNCHANGED <<varsFS, varsPR, varsWK, varsSR>>

NextArn == DissectPipelineExecutionArn

(***************************************************************************)
(* dissect_schedule_arn and generate_schedule_metadata                     *)
(***************************************************************************)

\* Lines 108-120, with the length test one part too strict
dissect_schedule_arn_SevenParts(schedule_arn) ==
    LET arn_parts == Split(schedule_arn, ":") IN
    IF Len(arn_parts) < 7 \/ ~StartsWith(arn_parts[6], "schedule/")
    THEN Raise("ValueError")
    ELSE Return(<<arn_parts[4], Split(arn_parts[6], "schedule/")[2]>>)

\* Lines 108-120.  arn_parts[k] of Python is arn_parts[k + 1] here.
dissect_schedule_arn(schedule_arn) ==
    LET arn_parts == Split(schedule_arn, ":") IN
    IF Len(arn_parts) < 6 \/ ~StartsWith(arn_parts[6], "schedule/")
    THEN Raise("ValueError")
    ELSE Return(<<arn_parts[4], Split(arn_parts[6], "schedule/")[2]>>)

\* Lines 993-998: the dictionary generate_schedule_metadata returns
ScheduleMetadata(region, name) ==
    [k \in {"trigger_url"} |->
        "https://" \o region \o ".console.aws.amazon.com/scheduler/home"
            \o "?region=" \o region \o "#schedules/" \o name]

\* sep.join(parts)
RECURSIVE Join(_, _)
Join(parts, sep) ==
    IF parts = <<>> THEN ""
    ELSE IF Len(parts) = 1 THEN parts[1]
    ELSE parts[1] \o sep \o Join(Tail(parts), sep)

\* Longest schedule group name, counted in pieces of GroupPieces
MaxGroupParts == 2

\* Most colon-separated fields of an input that is no schedule ARN
MaxFields == 7

Partitions == {"aws", "aws-cn"}

GroupPieces == {"g", "my-", "schedule"}

\* EventBridge Scheduler group names: letters, digits, '-', '_' and '.'
ScheduleGroups == Words(GroupPieces, MaxGroupParts) \cup {"default"}

ScheduleNames == {"n", "nightly-schedule", "run_1"}

\* 'arn:PARTITION:scheduler:REGION:ACCOUNT:schedule/GROUP/NAME'
ScheduleArn(partition, region, account, group, name) ==
    "arn:" \o partition \o ":scheduler:" \o region \o ":" \o account
        \o ":schedule/" \o group \o "/" \o name

\* The sixth and later fields of the inputs that are no schedule ARN
LooseFields == {"", "a", "schedule/", "schedule/x", "xschedule/y", "schedule"}

\* The tuples over S of length n
RECURSIVE Tuples(_, _)
Tuples(S, n) ==
    IF n = 0 THEN {<<>>}
    ELSE {Append(t, x) : t \in Tuples(S, n - 1), x \in S}

\* Strings of k fields: the first five those of a schedule ARN, cut to k
LooseArns(region) ==
    LET head == <<"arn", "aws", "scheduler", region, "1">> IN
    {Join(SubSeq(head, 1, k), ":") : k \in 1..5}
    \cup {Join(head \o t, ":") :
            t \in UNION {Tuples(LooseFields, k - 5) : k \in 6..MaxFields}}

InitSched ==
    /\ sf_fn \in {"dissect_schedule_arn", "generate_schedule_metadata"}
    /\ sf_inner = Pending
    /\ sf_out = Pending
    /\ \/ \E p \in Partitions, r \in Regions, g \in ScheduleGroups,
             n \in ScheduleNames :
             sf_in = [arg |-> ScheduleArn(p, r, "1", g, n),
                      form |-> [kind |-> "schedule", region |-> r,
                                group |-> g, name |-> n]]
       \/ \E r \in Regions : \E w \in LooseArns(r) \cup {""} :
             sf_in = [arg |-> w, form |-> [kind |-> "other"]]

\* A call of dissect_schedule_arn
DissectScheduleArn ==
    /\ sf_fn = "dissect_schedule_arn"
    /\ sf_out = Pending
    /\ sf_out' = dissect_schedule_arn(sf_in.arg)
    /\ UNCHANGED <<sf_fn, sf_in, sf_inner>>
    /\ UNCHANGED <<varsFS, varsPR, varsWK, varsSR>>

\* Line 991: generate_schedule_metadata calls dissect_schedule_arn, whose
\* exception it lets through
GenerateScheduleMetadataDissect ==
    /\ sf_fn = "generate_schedule_metadata"
    /\ sf_inner = Pending
    /\ sf_out = Pending
    /\ sf_inner' = dissect_schedule_arn(sf_in.arg)
    /\ sf_out' = IF sf_inner'.kind = "raise" THEN sf_inner' ELSE sf_out
    /\ UNCHANGED <<sf_fn, sf_in>>
    /\ UNCHANGED <<varsFS, varsPR, varsWK, varsSR>>

\* Lines 993-998
GenerateScheduleMetadataReturn ==
    /\ sf_fn = "generate_schedule_metadata"
    /\ sf_inner.kind = "return"
    /\ sf_out = Pending
    /\ sf_out' = Return(ScheduleMetadata(sf_inner.value[1], sf_inner.value[2]))
    /\ UNCHANGED <<sf_fn, sf_in, sf_inner>>
    /\ UNCHANGED <<varsFS, varsPR, varsWK, varsSR>>

NextSched ==
    \/ DissectScheduleArn
    \/ GenerateScheduleMetadataDissect
    \/ GenerateScheduleMetadataReturn

(***************************************************************************)
(* Environment variables: chunking and reconstruction                      *)
(* (zenml.utils.env_utils, called at lines 318-321 and 345-348 and by the  *)
(* entrypoint on the worker)                                               *)
(***************************************************************************)

\* SAGEMAKER_PROCESSOR_STEP_ENV_VAR_SIZE_LIMIT (imported at line 71; 256
\* in the program), scaled down so that short strings exceed it
SizeLimit == 2

\* A value needing more chunks than this makes split_environment_variables
\* raise RuntimeError
MaxChunks == 10

ENV_VAR_CHUNK_SUFFIX == "_CHUNK_"

ChunkKey(key, i) == key \o ENV_VAR_CHUNK_SUFFIX \o ToString(i)

\* The number of chunks of a value longer than size_limit
NumChunks(value, size_limit) == (Len(value) + size_limit - 1) \div size_limit

\* value[i * size_limit : (i + 1) * size_limit]
Chunk(value, size_limit, i) ==
    Sub(value, i * size_limit + 1,
        IF (i + 1) * size_limit < Len(value) THEN (i + 1) * size_limit
        ELSE Len(value))

\* split_environment_variables(size_limit, env): the dictionary env is left
\* as, or a RuntimeError
split_environment_variables(size_limit, env) ==
    LET long == {k \in DOMAIN env : Len(env[k]) > size_limit} IN
    IF \E k \in long : Len(env[k]) > size_limit * MaxChunks
    THEN Raise("RuntimeError")
    ELSE LET chunks == {<<k, i>> \in long \X (0..(MaxChunks - 1)) :
                            i < NumChunks(env[k], size_limit)}
             keys == (DOMAIN env \ long)
                        \cup {ChunkKey(c[1], c[2]) : c \in chunks}
         IN Return([q \in keys |->
                IF \E c \in chunks : q = ChunkKey(c[1], c[2])
                THEN LET c == CHOOSE c \in chunks : q = ChunkKey(c[1], c[2])
                     IN Chunk(env[c[1]], size_limit, c[2])
                ELSE env[q]])

\* key[:-1].endswith(ENV_VAR_CHUNK_SUFFIX)
IsChunkKey(key) ==
    /\ Len(key) >= Len(ENV_VAR_CHUNK_SUFFIX) + 1
    /\ Sub(key, Len(key) - Len(ENV_VAR_CHUNK_SUFFIX), Len(key) - 1)
          = ENV_VAR_CHUNK_SUFFIX

\* key[: -(len(ENV_VAR_CHUNK_SUFFIX) + 1)]
ChunkedVariable(key) == Sub(key, 1, Len(key) - Len(ENV_VAR_CHUNK_SUFFIX) - 1)

\* The chunks of variable v that env holds, joined in the order of their
\* keys, from chunk index i on
RECURSIVE JoinChunks(_, _, _)
JoinChunks(env, v, i) ==
    IF i >= MaxChunks THEN ""
    ELSE (IF ChunkKey(v, i) \in DOMAIN env THEN env[ChunkKey(v, i)] ELSE "")
            \o JoinChunks(env, v, i + 1)

\* reconstruct_environment_variables(env): every variable that has chunks
\* is set to their concatenation and the chunks are removed
reconstruct_environment_variables(env) ==
    LET chunk_keys == {k \in DOMAIN env : IsChunkKey(k)}
        chunked == {ChunkedVariable(k) : k \in chunk_keys}
    IN [k \in (DOMAIN env \ chunk_keys) \cup chunked |->
            IF k \in chunked THEN JoinChunks(env, k, 0) ELSE env[k]]

\* environment.update(other)
DictUpdate(environment, other) == other @@ environment

\* The empty dictionary
EmptyDict == [k \in {} |-> ""]

(***************************************************************************)
(* prepare_or_run_pipeline: from the entry to the end of the step loop     *)
(***************************************************************************)

ENV_ZENML_SAGEMAKER_RUN_ID == "ZENML_SAGEMAKER_RUN_ID"

\* ExecutionVariables.PIPELINE_EXECUTION_ARN, a PipelineVariable and no str
PIPELINE_EXECUTION_ARN == "<ExecutionVariables.PIPELINE_EXECUTION_ARN>"

SanitizedChars ==
    "abcdefghijklmnopqrstuvwxyzABCDEFGHIJKLMNOPQRSTUVWXYZ0123456789-"

\* re.sub(r"[^a-zA-Z0-9\-]", "-", name)
RECURSIVE SanitizeRunName(_)
SanitizeRunName(name) ==
    IF name = "" THEN ""
    ELSE (IF Contains(SanitizedChars, Sub(name, 1, 1)) THEN Sub(name, 1, 1)
          ELSE "-") \o SanitizeRunName(Sub(name, 2, Len(name)))

\* Lines 351-359: the step's setting, else the orchestrator's, else True
UseTrainingStep(step_settings, config) ==
    IF step_settings.use_training_step # None
    THEN step_settings.use_training_step = "True"
    ELSE IF config.use_training_step # None
    THEN config.use_training_step = "True"
    ELSE TRUE

\* Lines 508-517: every value as a string, and the run id set last
StepEnvironment(environment) ==
    [k \in DOMAIN environment \cup {ENV_ZENML_SAGEMAKER_RUN_ID} |->
        IF k = ENV_ZENML_SAGEMAKER_RUN_ID THEN PIPELINE_EXECUTION_ARN
        ELSE environment[k]]

\* An Optional[Union[str, Dict[str, str]]] setting: None, a string, or a
\* dictionary as the sequence of its items
NoUri == [type |-> "None"]

StrUri(uri) == [type |-> "str", uri |-> uri]

DictUri(items) == [type |-> "dict", items |-> items]

\* Lines 431-434 and 442-475: the `inputs` of a TrainingStep
TrainingInputs(step_settings) ==
    LET uri == step_settings.input_data_s3_uri
        mode == step_settings.input_data_s3_mode
    IN IF uri.type = "str"
       THEN [type |-> "TrainingInput", s3_data |-> uri.uri, input_mode |-> mode]
       ELSE IF uri.type = "dict"
       THEN [type |-> "dict",
             items |-> [i \in DOMAIN uri.items |->
                          [channel |-> uri.items[i].channel,
                           input |-> [type |-> "TrainingInput",
                                      s3_data |-> uri.items[i].uri,
                                      input_mode |-> mode]]]]
       ELSE [type |-> "None"]

\* Lines 431-434 and 442-475 with one destination for every channel
ProcessingInputs_OneDestination(step_settings) ==
    LET uri == step_settings.input_data_s3_uri
        mode == step_settings.input_data_s3_mode
    IN IF uri.type = "str"
       THEN [type |-> "list",
             items |-> <<[source |-> uri.uri,
                          destination |-> "/opt/ml/processing/input/data",
                          s3_input_mode |-> mode]>>]
       ELSE IF uri.type = "dict"
       THEN [type |-> "list",
             items |-> [i \in DOMAIN uri.items |->
                          [source |-> uri.items[i].uri,
                           destination |-> "/opt/ml/processing/input/data",
                           s3_input_mode |-> mode]]]
       ELSE [type |-> "None"]

\* Lines 431-434 and 442-475: the `inputs` of a ProcessingStep
ProcessingInputs(step_settings) ==
    LET uri == step_settings.input_data_s3_uri
        mode == step_settings.input_data_s3_mode
    IN IF uri.type = "str"
       THEN [type |-> "list",
             items |-> <<[source |-> uri.uri,
                          destination |-> "/opt/ml/processing/input/data",
                          s3_input_mode |-> mode]>>]
       ELSE IF uri.type = "dict"
       THEN [type |-> "list",
             items |-> [i \in DOMAIN uri.items |->
                          [source |-> uri.items[i].uri,
                           destination |-> "/opt/ml/processing/input/data/"
                                              \o uri.items[i].channel,
                           s3_input_mode |-> mode]]]
       ELSE [type |-> "None"]

\* Lines 478-506: the locals `outputs` and `output_path`
StepOutputs(step_settings, use_training_step) ==
    LET uri == step_settings.output_data_s3_uri
        mode == step_settings.output_data_s3_mode
    IN IF uri.type = "str"
       THEN IF use_training_step
            THEN [outputs |-> [type |-> "None"], output_path |-> uri.uri]
            ELSE [outputs |->
                    [type |-> "list",
                     items |-> <<[source |-> "/opt/ml/processing/output/data",
                                  destination |-> uri.uri,
                                  s3_upload_mode |-> mode]>>],
                  output_path |-> None]
       ELSE IF uri.type = "dict"
       THEN [outputs |->
               [type |-> "list",
                items |-> [i \in DOMAIN uri.items |->
                             [source |-> "/opt/ml/processing/output/data/"
                                            \o uri.items[i].channel,
                              destination |-> uri.items[i].uri,
                              s3_upload_mode |-> mode]]],
             output_path |-> None]
       ELSE [outputs |-> [type |-> "None"], output_path |-> None]

\* The local variables before the first assignment to any
NoLocals ==
    [orchestrator_run_name |-> None, sessions |-> 0, i |-> 1]

\* The generator ends by raising exc
PrRaise(exc) ==
    /\ pr_pc' = "raised"
    /\ pr_result' = Raise(exc)

\* Lines 302-321: the run name, the session, the chunking of `environment`
PrepareBegin ==
    /\ pr_pc = "begin"
    /\ LET split == split_environment_variables(SizeLimit, pr_in.environment) IN
       IF ~pr_in.connector_ok
       THEN /\ PrRaise("RuntimeError")
            /\ UNCHANGED <<pr_environment, pr_loc>>
       ELSE /\ pr_loc' = [pr_loc EXCEPT
                  !.orchestrator_run_name = SanitizeRunName(pr_in.run_name),
                  !.sessions = @ + 1]
            /\ IF split.kind = "raise"
               THEN PrRaise(split.exc) /\ UNCHANGED pr_environment
               ELSE /\ pr_environment' = split.value
                    /\ pr_pc' = IF pr_in.steps = <<>> THEN "create" ELSE "steps"
                    /\ UNCHANGED pr_result
    /\ UNCHANGED <<pr_in, pr_steps, pr_calls>>
    /\ UNCHANGED <<varsFS, varsSF, varsWK, varsSR>>

\* Lines 324-561: one turn of the loop over deployment.step_configurations
BuildStep ==
    /\ pr_pc = "steps"
    /\ LET step == pr_in.steps[pr_loc.i]
           st == step.settings
           split == IF st.environment # EmptyDict
                    THEN split_environment_variables(SizeLimit, st.environment)
                    ELSE Return(EmptyDict)
           environment == IF split.kind = "return"
                          THEN DictUpdate(pr_environment, split.value)
                          ELSE pr_environment
           use_training_step == UseTrainingStep(st, pr_in.config)
       IN
       IF split.kind = "raise"
       THEN /\ PrRaise(split.exc)
            /\ UNCHANGED <<pr_environment, pr_steps, pr_loc>>
       ELSE /\ pr_environment' = environment
            /\ IF st.network_config = "invalid"
               THEN /\ PrRaise("TypeError")
                    /\ UNCHANGED <<pr_steps, pr_loc>>
               ELSE /\ pr_steps' = Append(pr_steps,
                          IF use_training_step
                          THEN [name |-> step.name,
                                kind |-> "TrainingStep",
                                environment |-> StepEnvironment(environment),
                                base_job_name |-> pr_loc.orchestrator_run_name,
                                inputs |-> TrainingInputs(st),
                                output_path |-> StepOutputs(st, TRUE).output_path]
                          ELSE [name |-> step.name,
                                kind |-> "ProcessingStep",
                                environment |-> StepEnvironment(environment),
                                base_job_name |-> pr_loc.orchestrator_run_name,
                                inputs |-> ProcessingInputs(st),
                                outputs |-> StepOutputs(st, FALSE).outputs])
                    /\ pr_loc' = [pr_loc EXCEPT !.i = @ + 1]
                    /\ pr_pc' = IF pr_loc.i = Len(pr_in.steps) THEN "create"
                                ELSE "steps"
                    /\ UNCHANGED pr_result
    /\ UNCHANGED <<pr_in, pr_calls>>
    /\ UNCHANGED <<varsFS, varsSF, varsWK, varsSR>>

(***************************************************************************)
(* prepare_or_run_pipeline: the pipeline, its schedule or its execution    *)
(***************************************************************************)

MAX_POLLING_ATTEMPTS == 100

POLLING_DELAY == 30

\* None where the value, when present, is no string (datetime, timedelta)
NoneValue == [py |-> "None"]

\* str(x) inside an f-string
PyStr(x) == IF x = None THEN "None" ELSE x

\* s.replace(old, new), for a non-empty old
RECURSIVE Replace(_, _, _)
Replace(s, old, new) ==
    LET i == Find(s, old, 1) IN
    IF i = 0 THEN s
    ELSE Sub(s, 1, i - 1) \o new
            \o Replace(Sub(s, i + Len(old), Len(s)), old, new)

\* The characters str.split() and str.isspace() take for whitespace:
\* space, \t, \n, \r, \f, \v (0x0b), the four separators 0x1c-0x1f, the
\* next line character U+0085, the no-break space U+00A0 and the Ogham
\* space mark U+1680.  Python knows sixteen more (U+2000 to U+200A, U+2028,
\* U+2029, U+202F, U+205F, U+3000): no string constant can hold one of
\* those, so no string met here has one
Whitespace == " \t\n\r\f  "

IsSpace(c) == \E i \in 1..Len(Whitespace) : SubSeq(Whitespace, i, i) = c

\* len(s.split()): the number of maximal runs of non-whitespace characters
RECURSIVE CountFields(_)
CountFields(s) ==
    IF s = "" THEN 0
    ELSE (IF ~IsSpace(Sub(s, 1, 1))
             /\ (Len(s) = 1 \/ IsSpace(Sub(s, 2, 2)))
          THEN 1 ELSE 0) + CountFields(Sub(s, 2, Len(s)))

\* Lines 1013-1026 with the standard five fields accepted as well
validate_cron_expression_FiveFields(cron_expression) ==
    LET cron_exp == Replace(Replace(cron_expression, "cron(", ""), ")", "") IN
    IF CountFields(cron_exp) \notin {5, 6, 7}
    THEN Raise("ValueError")
    ELSE Return(cron_exp)

\* Lines 1013-1026
validate_cron_expression(cron_expression) ==
    LET cron_exp == Replace(Replace(cron_expression, "cron(", ""), ")", "") IN
    IF CountFields(cron_exp) \notin {6, 7}
    THEN Raise("ValueError")
    ELSE Return(cron_exp)

\* to_utc_timezone(dt) of zenml.utils.time_utils: the same instant with the
\* UTC time zone; left uninterpreted
to_utc_timezone(dt) == [utc_of |-> dt]

\* bool(x) for an Optional[str], an Optional[timedelta], an Optional[datetime]
TruthyStr(x) == x # None /\ x # ""

TruthyDelta(x) == x # NoneValue /\ x.seconds # 0

TruthyTime(x) == x # NoneValue

\* Lines 617-623, for an interval that is not negative
RateMinutes(interval_second) ==
    IF interval_second.seconds \div 60 > 1 THEN interval_second.seconds \div 60
    ELSE 1

\* Lines 633-649 without the check of execution_time
OneTimeSchedule_NoRaise(schedule, schedule_name) ==
    LET execution_time ==
           IF TruthyTime(schedule.run_once_start_time)
           THEN schedule.run_once_start_time ELSE schedule.start_time
    IN Return([schedule |->
                 [kind |-> "at", name |-> schedule_name,
                  at |-> to_utc_timezone(execution_time), enabled |-> TRUE],
               minutes_bound |-> FALSE, next_execution_bound |-> TRUE])

\* Lines 633-649: the one-time schedule, at run_once_start_time or start_time
OneTimeSchedule(schedule, schedule_name) ==
    LET execution_time ==
           IF TruthyTime(schedule.run_once_start_time)
           THEN schedule.run_once_start_time ELSE schedule.start_time
    IN
    IF ~TruthyTime(execution_time) THEN Raise("ValueError")
    ELSE Return([schedule |->
                   [kind |-> "at", name |-> schedule_name,
                    at |-> to_utc_timezone(execution_time), enabled |-> TRUE],
                 minutes_bound |-> FALSE, next_execution_bound |-> TRUE])

\* Lines 593-649 with the interval looked at before the cron expression
BuildSchedule_RateFirst(schedule, schedule_name) ==
    LET start_date == IF TruthyTime(schedule.start_time)
                      THEN to_utc_timezone(schedule.start_time)
                      ELSE NoneValue
    IN
    IF TruthyDelta(schedule.interval_second)
    THEN Return([schedule |->
                    [kind |-> "rate", name |-> schedule_name,
                     rate |-> <<RateMinutes(schedule.interval_second), "minutes">>,
                     start_date |-> start_date, enabled |-> TRUE],
                 minutes_bound |-> TRUE, next_execution_bound |-> TRUE])
    ELSE IF TruthyStr(schedule.cron_expression)
    THEN LET cron_exp == validate_cron_expression(schedule.cron_expression) IN
         IF cron_exp.kind = "raise" THEN cron_exp
         ELSE Return([schedule |->
                        [kind |-> "cron", name |-> schedule_name,
                         cron |-> cron_exp.value, start_date |-> start_date,
                         enabled |-> TRUE],
                      minutes_bound |-> FALSE, next_execution_bound |-> FALSE])
    ELSE OneTimeSchedule(schedule, schedule_name)

\* Lines 593-649: the PipelineSchedule, and which of the locals `minutes`
\* and `next_execution` hold a value afterwards; or the ValueError
BuildSchedule(schedule, schedule_name) ==
    LET start_date == IF TruthyTime(schedule.start_time)
                      THEN to_utc_timezone(schedule.start_time)
                      ELSE NoneValue
    IN
    IF TruthyStr(schedule.cron_expression)
    THEN LET cron_exp == validate_cron_expression(schedule.cron_expression) IN
         IF cron_exp.kind = "raise" THEN cron_exp
         ELSE Return([schedule |->
                        [kind |-> "cron", name |-> schedule_name,
                         cron |-> cron_exp.value, start_date |-> start_date,
                         enabled |-> TRUE],
                      minutes_bound |-> FALSE, next_execution_bound |-> FALSE])
    ELSE IF TruthyDelta(schedule.interval_second)
    THEN Return([schedule |->
                    [kind |-> "rate", name |-> schedule_name,
                     rate |-> <<RateMinutes(schedule.interval_second), "minutes">>,
                     start_date |-> start_date, enabled |-> TRUE],
                 minutes_bound |-> TRUE, next_execution_bound |-> TRUE])
    ELSE OneTimeSchedule(schedule, schedule_name)

\* The characters the class \d of a str pattern matches (line 674 compiles
\* without re.ASCII): the decimal digits of every script.  Here are 0-9
\* and the digits of the eighteen scripts a string constant can hold
\* (Extended Arabic-Indic, NKo, Bengali, Gujarati, Tamil, Kannada,
\* Sinhala Lith, Lao, Myanmar Shan, Khmer, New Tai Lue, Tai Tham Hora and
\* Tham, Sundanese, Saurashtra, Javanese, Myanmar Tai Laing, Meetei
\* Mayek); the digits of the other scripts cannot be written in a string
\* constant, so no string met here has one
IsDigit(c) ==
    /\ Len(c) = 1
    /\ Contains(
          "0123456789"
               \o "۰۱۲۳۴۵۶۷۸۹"
               \o "߀߁߂߃߄߅߆߇߈߉"
               \o "০১২৩৪৫৬৭৮৯"
               \o "૦૧૨૩૪૫૬૭૮૯"
               \o "௦௧௨௩௪௫௬௭௮௯"
               \o "೦೧೨೩೪೫೬೭೮೯"
               \o "෦෧෨෩෪෫෬෭෮෯"
               \o "໐໑໒໓໔໕໖໗໘໙"
               \o "႐႑႒႓႔႕႖႗႘႙"
               \o "០១២៣៤៥៦៧៨៩"
               \o "᧐᧑᧒᧓᧔᧕᧖᧗᧘᧙"
               \o "᪀᪁᪂᪃᪄᪅᪆᪇᪈᪉"
               \o "᪐᪑᪒᪓᪔᪕᪖᪗᪘᪙"
               \o "᮰᮱᮲᮳᮴᮵᮶᮷᮸᮹"
               \o "꣐꣑꣒꣓꣔꣕꣖꣗꣘꣙"
               \o "꧐꧑꧒꧓꧔꧕꧖꧗꧘꧙"
               \o "꧰꧱꧲꧳꧴꧵꧶꧷꧸꧹"
               \o "꯰꯱꯲꯳꯴꯵꯶꯷꯸꯹",
          c)

\* The last position of the run of digits of s that starts at i; i - 1
\* when s has no digit there
RECURSIVE DigitsEnd(_, _)
DigitsEnd(s, i) ==
    IF i <= Len(s) /\ IsDigit(Sub(s, i, i)) THEN DigitsEnd(s, i + 1) ELSE i - 1

\* Lines 673-677: re.sub(r"arn:aws:sts::(\d+):assumed-role/([^/]+)/.*",
\* r"arn:aws:iam::\1:role/\2", arn).  Every match is replaced, from the
\* left; [^/]+ may hold a line break, and .* ends before the next line
\* break, so what follows the line of a match is kept and searched again
RECURSIVE AssumedRoleToRole(_)
AssumedRoleToRole(arn) ==
    LET pre == "arn:aws:sts::"
        mid == ":assumed-role/"
        Matches(i) ==
            /\ OccursAt(arn, pre, i)
            /\ DigitsEnd(arn, i + Len(pre)) >= i + Len(pre)
            /\ OccursAt(arn, mid, DigitsEnd(arn, i + Len(pre)) + 1)
            /\ Find(arn, "/", DigitsEnd(arn, i + Len(pre)) + 1 + Len(mid))
                  > DigitsEnd(arn, i + Len(pre)) + 1 + Len(mid)
        starts == {i \in 1..Len(arn) : Matches(i)}
    IN
    IF starts = {} THEN arn
    ELSE LET i == Min(starts)
             dend == DigitsEnd(arn, i + Len(pre))
             name == dend + 1 + Len(mid)
             slash == Find(arn, "/", name)
             line_break == Find(arn, "\n", slash + 1)
             stop == IF line_break = 0 THEN Len(arn) ELSE line_break - 1
         IN Sub(arn, 1, i - 1) \o "arn:aws:iam::"
                \o Sub(arn, i + Len(pre), dend) \o ":role/"
                \o Sub(arn, name, slash - 1)
                \o AssumedRoleToRole(Sub(arn, stop + 1, Len(arn)))

\* Lines 657-697: the role taken from the caller identity, whose "Arn" is
\* identity, or the string "error" when get_caller_identity itself fails
RoleOfCallerIdentity(identity) ==
    IF identity = "error" THEN Raise("RuntimeError")
    ELSE IF Contains(identity, ":user/") THEN Return(identity)
    ELSE IF Contains(identity, ":assumed-role/")
    THEN Return(AssumedRoleToRole(identity))
    ELSE Raise("RuntimeError")

METADATA_ORCHESTRATOR_URL == "orchestrator_url"

METADATA_ORCHESTRATOR_LOGS_URL == "orchestrator_logs_url"

\* Lines 918-942; domains is the DomainId list_domains answers first, or
\* "error" when the session or the lookup fails.  An execution_arn that is
\* no string (None) makes re.search raise TypeError, which is caught here
\* as every other exception is
compute_orchestrator_url(execution_arn, domains) ==
    LET d == dissect_pipeline_execution_arn(execution_arn).value IN
    IF execution_arn = None \/ domains = "error" THEN None
    ELSE "https://studio-" \o domains \o ".studio." \o PyStr(d[1])
            \o ".sagemaker.aws/pipelines/view/" \o PyStr(d[2])
            \o "/executions/" \o PyStr(d[3]) \o "/graph"

\* Lines 958-979
compute_orchestrator_logs_url(execution_arn, settings) ==
    LET d == dissect_pipeline_execution_arn(execution_arn).value
        use_training_jobs == IF settings.use_training_step # None
                             THEN settings.use_training_step = "True"
                             ELSE TRUE
        job_type == IF use_training_jobs THEN "Training" ELSE "Processing"
    IN IF execution_arn = None THEN None ELSE
       "https://" \o PyStr(d[1]) \o ".console.aws.amazon.com/"
          \o "cloudwatch/home?region=" \o PyStr(d[1])
          \o "#logsV2:log-groups/log-group"
          \o "/$252Faws$252Fsagemaker$252F" \o job_type
          \o "Jobs$3FlogStreamNameFilter" \o "$3Dpipelines-" \o PyStr(d[3]) \o "-"

\* Lines 887-904 with both URLs stored whatever they are
compute_metadata_AlwaysUrls(execution_arn, settings, domains) ==
    [k \in {"pipeline_execution_arn", METADATA_ORCHESTRATOR_RUN_ID,
            METADATA_ORCHESTRATOR_URL, METADATA_ORCHESTRATOR_LOGS_URL} |->
        IF k = METADATA_ORCHESTRATOR_URL
        THEN compute_orchestrator_url(execution_arn, domains)
        ELSE IF k = METADATA_ORCHESTRATOR_LOGS_URL
        THEN compute_orchestrator_logs_url(execution_arn, settings)
        ELSE execution_arn]

\* Lines 887-904: the one dictionary compute_metadata yields
compute_metadata(execution_arn, settings, domains) ==
    LET orchestrator_url == compute_orchestrator_url(execution_arn, domains)
        logs_url == compute_orchestrator_logs_url(execution_arn, settings)
        keys == {"pipeline_execution_arn", METADATA_ORCHESTRATOR_RUN_ID}
                \cup (IF TruthyStr(orchestrator_url)
                      THEN {METADATA_ORCHESTRATOR_URL} ELSE {})
                \cup (IF TruthyStr(logs_url)
                      THEN {METADATA_ORCHESTRATOR_LOGS_URL} ELSE {})
    IN [k \in keys |->
            IF k = METADATA_ORCHESTRATOR_URL THEN orchestrator_url
            ELSE IF k = METADATA_ORCHESTRATOR_LOGS_URL THEN logs_url
            ELSE execution_arn]

\* Line 766: whether the call waits for the execution it started
WaitsForExecution_Always(settings) == TRUE

WaitsForExecution(settings) == settings.synchronous

\* What AWS may answer
CallerIdentities ==
    {"arn:aws:iam::123:user/bob",
     "arn:aws:sts::123:assumed-role/zenml-role/session-1",
     "arn:aws:sts::1৩:assumed-role/zenml-role/session-1",
     "arn:aws:sts::123:assumed-role/zenml-role/session-1\nmore",
     "x arn:aws:sts::1:assumed-role/a\nb/s\narn:aws:sts::2:assumed-role/c/",
     "arn:aws:iam::123:role/zenml-role",
     "arn:aws:iam::123:root",
     "error"}

TriggerArns ==
    {"arn:aws:scheduler:eu:123:schedule/default/my-pipeline", "not-an-arn"}

StartedExecutionArns ==
    {"arn:aws:sagemaker:eu:123:pipeline/my-pipeline/execution/e1",
     "arn:aws:sagemaker:eu:123:pipeline/p-execution/execution/e2"}

StudioDomains == {"d-1", "error"}

\* Line 585 with the schedule never looked at
AfterCreate_AlwaysStart(schedule) == "start"

\* Line 585: `if deployment.schedule:` sends the call to the schedule
\* translation, the `else:` at line 752 to pipeline.start
AfterCreate(schedule) == IF schedule.present THEN "schedule" ELSE "start"

\* Lines 563-582: pipeline.create
CreatePipeline ==
    /\ pr_pc = "create"
    /\ pr_calls' = Append(pr_calls,
          [op |-> "create", name |-> pr_loc.orchestrator_run_name,
           steps |-> [i \in DOMAIN pr_steps |-> pr_steps[i].name],
           role_arn |-> pr_in.config.execution_role])
    /\ pr_pc' = AfterCreate(pr_in.schedule)
    /\ UNCHANGED <<pr_in, pr_environment, pr_steps, pr_loc, pr_result>>
    /\ UNCHANGED <<varsFS, varsSF, varsWK, varsSR>>

\* The cron expressions of the schedules: unset, empty, of six and of five
\* fields, wrapped in cron( ), and with fields separated by a line break,
\* by U+00A0 and by U+0085
CronExpressions ==
    {None, "", "0 12 * * ? *", "cron(0 12 * * ? *)", "0 12 * * *",
     "0 12 * * ?\n*", "0 12 * * ? *", "0 12 * * ?*"}

\* Lines 585-649: the PipelineSchedule of a scheduled deployment.  (TLC
\* stores the strings of queued states one byte a character, which keeps
\* their identity but not the text of a character beyond ASCII: the
\* expression is therefore read where it was written, in CronExpressions.)
TranslateSchedule ==
    /\ pr_pc = "schedule"
    /\ LET cron_expression == CHOOSE e \in CronExpressions :
                                 e = pr_in.schedule.cron_expression
           built == BuildSchedule(
                       [pr_in.schedule EXCEPT
                           !.cron_expression = cron_expression],
                       pr_loc.orchestrator_run_name)
       IN
       IF built.kind = "raise"
       THEN PrRaise(built.exc) /\ UNCHANGED pr_loc
       ELSE /\ pr_loc' = [k \in DOMAIN pr_loc \cup DOMAIN built.value |->
                            IF k \in DOMAIN built.value THEN built.value[k]
                            ELSE pr_loc[k]]
            /\ pr_pc' = "role"
            /\ UNCHANGED pr_result
    /\ UNCHANGED <<pr_in, pr_environment, pr_steps, pr_calls>>
    /\ UNCHANGED <<varsFS, varsSF, varsWK, varsSR>>

\* Lines 651-699: the role the schedule runs under
ResolveSchedulerRole ==
    /\ pr_pc = "role"
    /\ IF pr_in.config.scheduler_role # None
       THEN /\ pr_loc' = [k \in DOMAIN pr_loc \cup {"scheduler_role_arn"} |->
                            IF k = "scheduler_role_arn"
                            THEN pr_in.config.scheduler_role ELSE pr_loc[k]]
            /\ pr_pc' = "put_triggers"
            /\ UNCHANGED <<pr_result, pr_calls>>
       ELSE \E identity \in CallerIdentities :
               LET role == RoleOfCallerIdentity(identity) IN
               /\ pr_calls' = Append(pr_calls, [op |-> "get_caller_identity"])
               /\ IF role.kind = "raise"
                  THEN PrRaise(role.exc) /\ UNCHANGED pr_loc
                  ELSE /\ pr_loc' =
                            [k \in DOMAIN pr_loc \cup {"scheduler_role_arn"} |->
                                IF k = "scheduler_role_arn" THEN role.value
                                ELSE pr_loc[k]]
                       /\ pr_pc' = "put_triggers"
                       /\ UNCHANGED pr_result
    /\ UNCHANGED <<pr_in, pr_environment, pr_steps>>
    /\ UNCHANGED <<varsFS, varsSF, varsWK, varsSR>>

\* Lines 701-706: pipeline.put_triggers
PutTriggers ==
    /\ pr_pc = "put_triggers"
    /\ \E arn \in TriggerArns :
          /\ pr_calls' = Append(pr_calls,
                [op |-> "put_triggers", triggers |-> <<pr_loc.schedule>>,
                 role_arn |-> pr_loc.scheduler_role_arn])
          /\ pr_loc' = [k \in DOMAIN pr_loc \cup {"triggers"} |->
                          IF k = "triggers" THEN <<arn>> ELSE pr_loc[k]]
    /\ pr_pc' = "schedule_metadata"
    /\ UNCHANGED <<pr_in, pr_environment, pr_steps, pr_result>>
    /\ UNCHANGED <<varsFS, varsSF, varsWK, varsSR>>

\* Lines 708-728: the schedule's metadata; every exception is swallowed
AttachScheduleMetadata ==
    /\ pr_pc = "schedule_metadata"
    /\ LET schedule_metadata == dissect_schedule_arn(pr_loc.triggers[1]) IN
       \E stored \in BOOLEAN :
          pr_calls' =
             IF schedule_metadata.kind = "return" /\ stored
             THEN Append(pr_calls,
                     [op |-> "create_run_metadata",
                      metadata |-> ScheduleMetadata(schedule_metadata.value[1],
                                                    schedule_metadata.value[2])])
             ELSE pr_calls
    /\ pr_pc' = "log"
    /\ UNCHANGED <<pr_in, pr_environment, pr_steps, pr_loc, pr_result>>
    /\ UNCHANGED <<varsFS, varsSF, varsWK, varsSR>>

\* Lines 730-751: the closing log lines.  Line 740 reads the local
\* `minutes`, which only the rate branch assigns.
LogSchedule ==
    /\ pr_pc = "log"
    /\ IF TruthyDelta(pr_in.schedule.interval_second) /\ ~pr_loc.minutes_bound
       THEN PrRaise("UnboundLocalError")
       ELSE pr_pc' = "done" /\ pr_result' = Return(None)
    /\ UNCHANGED <<pr_in, pr_environment, pr_steps, pr_loc, pr_calls>>
    /\ UNCHANGED <<varsFS, varsSF, varsWK, varsSR>>

\* Lines 753-758: pipeline.start
StartPipeline ==
    /\ pr_pc = "start"
    /\ \E arn \in StartedExecutionArns :
          /\ pr_calls' = Append(pr_calls, [op |-> "start"])
          /\ pr_loc' = [k \in DOMAIN pr_loc \cup {"execution_arn"} |->
                          IF k = "execution_arn" THEN arn ELSE pr_loc[k]]
    /\ pr_pc' = "metadata"
    /\ UNCHANGED <<pr_in, pr_environment, pr_steps, pr_result>>
    /\ UNCHANGED <<varsFS, varsSF, varsWK, varsSR>>

\* Lines 760-763: yield from compute_metadata
YieldMetadata ==
    /\ pr_pc = "metadata"
    /\ \E domains \in StudioDomains :
          pr_calls' = Append(pr_calls,
             [op |-> "yield",
              metadata |-> compute_metadata(pr_loc.execution_arn,
                                            pr_in.settings, domains)])
    /\ pr_pc' = "wait"
    /\ UNCHANGED <<pr_in, pr_environment, pr_steps, pr_loc, pr_result>>
    /\ UNCHANGED <<varsFS, varsSF, varsWK, varsSR>>

\* Lines 765-775: with settings.synchronous the call enters execution.wait,
\* which blocks while SageMaker runs the steps; without, the call is over
WaitForExecution ==
    /\ pr_pc = "wait"
    /\ IF WaitsForExecution(pr_in.settings)
       THEN /\ pr_calls' = Append(pr_calls,
                  [op |-> "wait", delay |-> POLLING_DELAY,
                   max_attempts |-> MAX_POLLING_ATTEMPTS,
                   outcome |-> "waiting"])
            /\ pr_pc' = "waiting"
            /\ UNCHANGED pr_result
       ELSE /\ pr_pc' = "done"
            /\ pr_result' = Return(None)
            /\ UNCHANGED pr_calls
    /\ UNCHANGED <<pr_in, pr_environment, pr_steps, pr_loc>>
    /\ UNCHANGED <<varsFS, varsSF, varsWK, varsSR>>

\* execution.wait has returned: the execution has succeeded, all its steps
\* have run
ExecutionOver ==
    \E c \in DOMAIN pr_calls :
       pr_calls[c].op = "wait" /\ pr_calls[c].outcome = "finished"

\* Lines 774-786: execution.wait returns once the execution has succeeded,
\* which no execution does while a step of it still runs or after a step of
\* it has failed; it raises WaiterError when the execution fails or is not
\* over after MAX_POLLING_ATTEMPTS polls, and the call raises RuntimeError
ExecutionWaitEnds ==
    /\ pr_pc = "waiting"
    /\ \E outcome \in {"finished", "WaiterError"} :
          /\ outcome = "finished" =>
                (wk_environ.step > 0 => wk_result.kind = "return")
          /\ pr_calls' = [pr_calls EXCEPT ![Len(pr_calls)].outcome = outcome]
          /\ IF outcome = "WaiterError"
             THEN PrRaise("RuntimeError")
             ELSE pr_pc' = "done" /\ pr_result' = Return(None)
    /\ UNCHANGED <<pr_in, pr_environment, pr_steps, pr_loc>>
    /\ UNCHANGED <<varsFS, varsSF, varsWK, varsSR>>

(***************************************************************************)
(* The worker: the entrypoint reconstructs the chunked variables, then the *)
(* step asks for the orchestrator run id                                   *)
(***************************************************************************)

\* Lines 212-218 without the try/except around the lookup
get_orchestrator_run_id_KeyError(environ) ==
    IF ENV_ZENML_SAGEMAKER_RUN_ID \in DOMAIN environ
    THEN Return(environ[ENV_ZENML_SAGEMAKER_RUN_ID])
    ELSE Raise("KeyError")

\* Lines 212-218
get_orchestrator_run_id(environ) ==
    IF ENV_ZENML_SAGEMAKER_RUN_ID \in DOMAIN environ
    THEN Return(environ[ENV_ZENML_SAGEMAKER_RUN_ID])
    ELSE Raise("RuntimeError")

\* The environment SageMaker gives the container of a step: the pipeline
\* variable replaced by the ARN of the execution
ContainerEnvironment(step_environment, execution_arn) ==
    [k \in DOMAIN step_environment |->
        IF step_environment[k] = PIPELINE_EXECUTION_ARN THEN execution_arn
        ELSE step_environment[k]]

\* No process has been started yet
NoProcess == [step |-> -1, environ |-> EmptyDict]

\* A step of the execution begins on its worker (step > 0): at any time
\* from pipeline.start (line 754) on, while the call yields its metadata,
\* waits, or has ended, until the execution is over.  Or a process that
\* SageMaker did not start looks at its environment (step = 0), at any time
WorkerStart ==
    /\ pr_pc # "idle"
    /\ wk_environ = NoProcess
    /\ \E i \in {0} \cup DOMAIN pr_steps :
          /\ i > 0 => "execution_arn" \in DOMAIN pr_loc /\ ~ExecutionOver
          /\ wk_environ' =
             IF i = 0 THEN [step |-> 0, environ |-> EmptyDict]
             ELSE [step |-> i,
                   environ |-> reconstruct_environment_variables(
                      ContainerEnvironment(pr_steps[i].environment,
                                           pr_loc.execution_arn))]
    /\ UNCHANGED wk_result
    /\ UNCHANGED <<varsFS, varsSF, varsPR, varsSR>>

\* A call of get_orchestrator_run_id in that process
GetOrchestratorRunId ==
    /\ wk_environ # NoProcess
    /\ wk_result = Pending
    /\ wk_result' = get_orchestrator_run_id(wk_environ.environ)
    /\ UNCHANGED wk_environ
    /\ UNCHANGED <<varsFS, varsSF, varsPR, varsSR>>

(***************************************************************************)
(* The deployments prepare_or_run_pipeline is called with                  *)
(***************************************************************************)

\* Most steps of a deployment
MaxSteps == 2

NoSchedule ==
    [present |-> FALSE, cron_expression |-> None,
     interval_second |-> NoneValue, start_time |-> NoneValue,
     run_once_start_time |-> NoneValue]

Intervals == {NoneValue, [seconds |-> 0], [seconds |-> 30], [seconds |-> 150]}

StartTimes == {NoneValue, [wall |-> 100, tz |-> "naive"]}

RunOnceTimes == {NoneValue, [wall |-> 200, tz |-> "+01:00"]}

Schedules ==
    [present : {TRUE}, cron_expression : CronExpressions,
     interval_second : Intervals, start_time : StartTimes,
     run_once_start_time : RunOnceTimes]

\* get_orchestrator_run_name(pipeline_name): the name and a random suffix
RunNames == {"my_pipeline_1a2b", "daily run.v2-3c4d"}

OptionalBools == {None, "True", "False"}

PlainSettings ==
    [environment |-> EmptyDict, network_config |-> None,
     use_training_step |-> None,
     input_data_s3_uri |-> NoUri, input_data_s3_mode |-> "File",
     output_data_s3_uri |-> NoUri, output_data_s3_mode |-> "EndOfJob"]

PlainConfig ==
    [execution_role |-> "arn:aws:iam::123:role/exec", scheduler_role |-> None,
     use_training_step |-> None]

StepNames == <<"load", "train", "evaluate", "deploy">>

\* Characters of the values: the base environment's and one row per step
BaseAlphabet == "abcdefghijklmnopqrstuvwxyzabcdefghijklmnopqrstuvwxyz"

StepAlphabets ==
    <<"ABCDEFGHIJKLMNOPQRSTUVWXYZABCDEFGHIJKLMNOPQRSTUVWXYZ",
      "0123456789012345678901234567890123456789012345678901",
      "+*+*+*+*+*+*+*+*+*+*+*+*+*+*+*+*+*+*+*+*+*+*+*+*+*+*",
      "%&%&%&%&%&%&%&%&%&%&%&%&%&%&%&%&%&%&%&%&%&%&%&%&%&%&">>

\* Lengths around the size limit: below it, two chunks, three chunks, and
\* more than MaxChunks chunks
ValueLengths == {1, SizeLimit + 1, 2 * SizeLimit + 1, MaxChunks * SizeLimit + 1}

\* The dictionaries with keys among "X" and the run id variable, the run id
\* being run_id, and the one that gives the run id variable a value over
\* the size limit
Environments(alphabet, run_id) ==
    {[k \in keys |-> IF k = "X" THEN Sub(alphabet, 1, n) ELSE run_id] :
        keys \in SUBSET {"X", ENV_ZENML_SAGEMAKER_RUN_ID}, n \in ValueLengths}
    \cup {[k \in {ENV_ZENML_SAGEMAKER_RUN_ID} |-> Sub(alphabet, 1, SizeLimit + 1)]}

\* The deployments of n steps whose settings differ in their environment
RECURSIVE EnvironmentSteps(_)
EnvironmentSteps(n) ==
    IF n = 0 THEN {<<>>}
    ELSE {Append(steps, [name |-> StepNames[n],
                         settings |-> [PlainSettings EXCEPT !.environment = e]]) :
            steps \in EnvironmentSteps(n - 1),
            e \in Environments(StepAlphabets[n], "q")}

\* The deployments of n steps whose settings differ in the executor
RECURSIVE ExecutorSteps(_)
ExecutorSteps(n) ==
    IF n = 0 THEN {<<>>}
    ELSE {Append(steps, [name |-> StepNames[n],
                         settings |-> [PlainSettings EXCEPT
                            !.network_config = nc, !.use_training_step = u]]) :
            steps \in ExecutorSteps(n - 1),
            nc \in {None, "valid", "invalid"}, u \in OptionalBools}

\* Most channels of input_data_s3_uri or output_data_s3_uri
MaxChannels == 2

ChannelNames == <<"train", "test", "validation", "extra">>

\* None, a string, and the dictionaries of 0 to MaxChannels channels
S3Uris(bucket) ==
    {NoUri, StrUri("s3://" \o bucket)}
    \cup {DictUri([i \in 1..n |->
                     [channel |-> ChannelNames[i],
                      uri |-> "s3://" \o bucket \o "/" \o ChannelNames[i]]]) :
            n \in 0..MaxChannels}

\* Environments of every size, run at once
EnvironmentDeployments ==
    {[run_name |-> "my_pipeline_1a2b", connector_ok |-> TRUE,
      environment |-> e, steps |-> steps, config |-> PlainConfig,
      schedule |-> NoSchedule,
      settings |-> [synchronous |-> FALSE, use_training_step |-> None]] :
        e \in Environments(BaseAlphabet, "r"),
        steps \in UNION {EnvironmentSteps(n) : n \in 0..MaxSteps}}

\* Every schedule, scheduler role and synchronous setting
ScheduleDeployments ==
    {[run_name |-> name, connector_ok |-> TRUE,
      environment |-> EmptyDict,
      steps |-> <<[name |-> StepNames[1], settings |-> PlainSettings]>>,
      config |-> [PlainConfig EXCEPT !.scheduler_role = role],
      schedule |-> schedule,
      settings |-> [synchronous |-> sync, use_training_step |-> None]] :
        name \in RunNames, role \in {None, "arn:aws:iam::123:role/scheduler"},
        schedule \in Schedules \cup {NoSchedule}, sync \in BOOLEAN}

\* Every executor setting and connector, run at once and waited for
ExecutorDeployments ==
    {[run_name |-> "my_pipeline_1a2b", connector_ok |-> ok,
      environment |-> EmptyDict, steps |-> steps,
      config |-> [PlainConfig EXCEPT !.use_training_step = cu],
      schedule |-> NoSchedule,
      settings |-> [synchronous |-> TRUE, use_training_step |-> su]] :
        ok \in BOOLEAN, cu \in OptionalBools, su \in OptionalBools,
        steps \in UNION {ExecutorSteps(n) : n \in 0..MaxSteps}}

\* One step with every input and output setting, as a training step and as
\* a processing step
ChannelDeployments ==
    {[run_name |-> "my_pipeline_1a2b", connector_ok |-> TRUE,
      environment |-> EmptyDict,
      steps |-> <<[name |-> StepNames[1],
                   settings |-> [PlainSettings EXCEPT
                      !.use_training_step = u,
                      !.input_data_s3_uri = i,
                      !.input_data_s3_mode = m,
                      !.output_data_s3_uri = o]]>>,
      config |-> PlainConfig, schedule |-> NoSchedule,
      settings |-> [synchronous |-> FALSE, use_training_step |-> None]] :
        u \in OptionalBools, i \in S3Uris("in"), o \in S3Uris("out"),
        m \in {"File", "Pipe"}}

InitPR ==
    /\ pr_pc = "begin"
    /\ pr_in \in EnvironmentDeployments \cup ScheduleDeployments
                    \cup ExecutorDeployments \cup ChannelDeployments
    /\ pr_environment = pr_in.environment
    /\ pr_steps = <<>>
    /\ pr_loc = NoLocals
    /\ pr_calls = <<>>
    /\ pr_result = Pending
    /\ wk_environ = NoProcess
    /\ wk_result = Pending

\* No prepare_or_run_pipeline call is in progress and no worker runs
IdlePR ==
    /\ pr_pc = "idle"
    /\ pr_in = None
    /\ pr_environment = EmptyDict
    /\ pr_steps = <<>>
    /\ pr_loc = NoLocals
    /\ pr_calls = <<>>
    /\ pr_result = Pending
    /\ wk_environ = NoProcess
    /\ wk_result = Pending

NextPR ==
    \/ PrepareBegin
    \/ BuildStep
    \/ CreatePipeline
    \/ TranslateSchedule
    \/ ResolveSchedulerRole
    \/ PutTriggers
    \/ AttachScheduleMetadata
    \/ LogSchedule
    \/ StartPipeline
    \/ YieldMetadata
    \/ WaitForExecution
    \/ ExecutionWaitEnds
    \/ WorkerStart
    \/ GetOrchestratorRunId

(***************************************************************************)
(* compute_metadata on its own                                             *)
(***************************************************************************)

\* The execution ARNs of InitArn, the other strings of InitArn, and None
InitMeta ==
    /\ sf_fn = "compute_metadata"
    /\ sf_inner = Pending
    /\ sf_out = Pending
    /\ \E u \in OptionalBools :
          \/ \E r \in Regions, a \in Accounts, n \in PipelineNames,
                e \in ExecutionIds :
                sf_in = [arg |-> ExecutionArn(r, a, n, e),
                         form |-> [kind |-> "arn", region |-> r, name |-> n,
                                   id |-> e],
                         settings |-> [synchronous |-> TRUE,
                                       use_training_step |-> u]]
          \/ \E w \in Words(ArnPieces, MaxArnPieces) \cup {"", None} :
                sf_in = [arg |-> w, form |-> [kind |-> "other"],
                         settings |-> [synchronous |-> TRUE,
                                       use_training_step |-> u]]

\* Lines 887-904: the generator run to its end; sf_inner keeps what
\* list_domains answered, sf_out the dictionaries yielded
ComputeMetadata ==
    /\ sf_fn = "compute_metadata"
    /\ sf_out = Pending
    /\ \E domains \in StudioDomains :
          /\ sf_inner' = domains
          /\ sf_out' = Return(<<compute_metadata(sf_in.arg, sf_in.settings,
                                                domains)>>)
    /\ UNCHANGED <<sf_fn, sf_in>>
    /\ UNCHANGED <<varsFS, varsPR, varsWK, varsSR>>

NextMeta == ComputeMetadata

(***************************************************************************)
(* _validate_cron_expression on its own                                    *)
(***************************************************************************)

\* Most fields of a cron expression given to _validate_cron_expression
MaxCronFields == 8

CronFieldTexts == <<"0", "12", "*", "*", "?", "*", "2025", "L", "#">>

\* The first n fields
CronFields(n) ==
    [i \in 1..n |-> CronFieldTexts[((i - 1) % Len(CronFieldTexts)) + 1]]

\* What stands before the first field, and what is left of it once "cron("
\* and then ")" have been taken out
CronPrefixes ==
    {[text |-> "", stripped |-> ""],
     [text |-> "cron(", stripped |-> ""],
     [text |-> "cron( ", stripped |-> " "],
     [text |-> " ", stripped |-> " "],
     [text |-> "cr)on(", stripped |-> "cron("]}

\* What stands after the last field
CronSuffixes ==
    {[text |-> "", stripped |-> ""],
     [text |-> ")", stripped |-> ""],
     [text |-> " )", stripped |-> " "],
     [text |-> "))", stripped |-> ""]}

\* What stands in front of every field
CronWraps == {"", "cron(", ")"}

\* What stands between two fields: blanks, tabs, line breaks and other
\* whitespace, within ASCII (0x0b, 0x1c) and beyond (U+0085, U+00A0, U+1680)
CronSeparators ==
    {" ", "  ", "\t", "\n", "\r\n", "\f", "", "", "", " ",
     " "}

\* The expressions: the argument, and how it was put together
CronInputs ==
    {[arg |-> p.text \o Join([i \in 1..n |-> w \o CronFields(n)[i]], sep)
                 \o s.text,
      form |-> [kind |-> "cron", fields |-> n, wrap |-> w,
                stripped |-> p.stripped \o Join(CronFields(n), sep)
                                \o s.stripped]] :
        p \in CronPrefixes, s \in CronSuffixes, w \in CronWraps,
        sep \in CronSeparators, n \in 0..MaxCronFields}

InitCron ==
    /\ sf_fn = "_validate_cron_expression"
    /\ sf_in \in CronInputs
    /\ sf_inner = Pending
    /\ sf_out = Pending

\* A call of _validate_cron_expression (the argument is read where it was
\* written, in CronInputs, as in TranslateSchedule)
ValidateCronExpression ==
    /\ sf_fn = "_validate_cron_expression"
    /\ sf_out = Pending
    /\ sf_out' = validate_cron_expression(
                     (CHOOSE c \in CronInputs : c = sf_in).arg)
    /\ UNCHANGED <<sf_fn, sf_in, sf_inner>>
    /\ UNCHANGED <<varsFS, varsPR, varsWK, varsSR>>

NextCron == ValidateCronExpression

(***************************************************************************)
(* StepRunResponse: input, output, regular_inputs, regular_outputs         *)
(* (models/v2/core/step_run.py)                                            *)
(***************************************************************************)

\* Most names in the inputs or outputs of a step run
MaxNames == 2

\* Most artifacts under one name
MaxArtifacts == 2

\* Values of StepRunInputArtifactType and of ArtifactSaveType (zenml.enums)
StepRunInputArtifactTypes == {"step_output", "manual", "external"}

ArtifactSaveTypes == {"step_output", "manual", "external"}

ArtifactNames == <<"x", "y", "z", "w">>

\* [][0] and the like
Index(list, i) ==
    IF i \in DOMAIN list THEN Return(list[i]) ELSE Raise("IndexError")

\* Lines 314-323 and 335-345: the two properties have the same body.  A
\* dictionary is the sequence of its items, in insertion order
FirstArtifact(artifacts_by_name) ==
    IF artifacts_by_name = <<>> THEN Raise("ValueError")
    ELSE IF \/ Len(artifacts_by_name) > 1
            \/ /\ Len(artifacts_by_name) = 1
               /\ Len(artifacts_by_name[1].artifacts) > 1
    THEN Raise("ValueError")
    ELSE Index(artifacts_by_name[1].artifacts, 1)

\* Lines 314-323
input(inputs) == FirstArtifact(inputs)

\* Lines 335-345
output(outputs) == FirstArtifact(outputs)

\* Lines 361-377 and 394-410: the loop over the items, given for each name
\* the list `filtered` of the list comprehension
RegularArtifacts(filtered_by_name) ==
    LET kept == SelectSeq(filtered_by_name, LAMBDA item : item.filtered # <<>>)
    IN IF \E i \in DOMAIN filtered_by_name :
             Len(filtered_by_name[i].filtered) > 1
       THEN Raise("ValueError")
       ELSE Return([i \in DOMAIN kept |->
                      [name |-> kept[i].name,
                       artifact |-> kept[i].filtered[1]]])

\* Lines 361-377 with only step outputs kept
regular_inputs_OnlyStepOutputs(inputs) ==
    RegularArtifacts(
       [i \in DOMAIN inputs |->
          [name |-> inputs[i].name,
           filtered |-> SelectSeq(inputs[i].artifacts,
                                  LAMBDA a : a.input_type = "step_output")]])

\* Lines 361-377
regular_inputs(inputs) ==
    RegularArtifacts(
       [i \in DOMAIN inputs |->
          [name |-> inputs[i].name,
           filtered |-> SelectSeq(inputs[i].artifacts,
                                  LAMBDA a : a.input_type # "manual")]])

\* Lines 394-410 with everything but manual saves kept
regular_outputs_NotManual(outputs) ==
    RegularArtifacts(
       [i \in DOMAIN outputs |->
          [name |-> outputs[i].name,
           filtered |-> SelectSeq(outputs[i].artifacts,
                                  LAMBDA a : a.save_type # "manual")]])

\* Lines 394-410
regular_outputs(outputs) ==
    RegularArtifacts(
       [i \in DOMAIN outputs |->
          [name |-> outputs[i].name,
           filtered |-> SelectSeq(outputs[i].artifacts,
                                  LAMBDA a : a.save_type = "step_output")]])

\* The lists of at most MaxArtifacts artifacts under a name
InputArtifacts(name) ==
    UNION {{[j \in 1..n |-> [id |-> name \o ToString(j), input_type |-> t[j]]] :
              t \in Tuples(StepRunInputArtifactTypes, n)} :
           n \in 0..MaxArtifacts}

OutputArtifacts(name) ==
    UNION {{[j \in 1..n |-> [id |-> name \o ToString(j), save_type |-> t[j]]] :
              t \in Tuples(ArtifactSaveTypes, n)} :
           n \in 0..MaxArtifacts}

\* The dictionaries of n names
RECURSIVE InputsOf(_)
InputsOf(n) ==
    IF n = 0 THEN {<<>>}
    ELSE {Append(d, [name |-> ArtifactNames[n], artifacts |-> a]) :
            d \in InputsOf(n - 1), a \in InputArtifacts(ArtifactNames[n])}

RECURSIVE OutputsOf(_)
OutputsOf(n) ==
    IF n = 0 THEN {<<>>}
    ELSE {Append(d, [name |-> ArtifactNames[n], artifacts |-> a]) :
            d \in OutputsOf(n - 1), a \in OutputArtifacts(ArtifactNames[n])}

(***************************************************************************)
(* StepRunFilter.get_custom_filters                                        *)
(***************************************************************************)

\* FILTER_EXCLUDE_FIELDS of the parent classes (zenml.models.v2.base)
ProjectScopedFilter_FILTER_EXCLUDE_FIELDS ==
    <<"sort_by", "page", "size", "logical_operator", "user", "scope_user",
      "project">>

RunMetadataFilterMixin_FILTER_EXCLUDE_FIELDS == <<"run_metadata">>

\* Lines 600-604
FILTER_EXCLUDE_FIELDS ==
    ProjectScopedFilter_FILTER_EXCLUDE_FIELDS
        \o RunMetadataFilterMixin_FILTER_EXCLUDE_FIELDS \o <<"model">>

\* BaseFilter: the fields that become plain column filters are the fields
\* that hold a value and are not in FILTER_EXCLUDE_FIELDS
ColumnFilterFields(filter) ==
    {f \in {"name", "model"} :
        /\ filter[f] # None
        /\ \A i \in DOMAIN FILTER_EXCLUDE_FIELDS : FILTER_EXCLUDE_FIELDS[i] # f}

\* Lines 691-698: the step run joined to its model version joined to the
\* model, matched by name or id
ModelFilter(model) ==
    [op |-> "and_",
     first |-> "StepRunSchema.model_version_id == ModelVersionSchema.id",
     second |-> "ModelVersionSchema.model_id == ModelSchema.id",
     third |-> [op |-> "generate_name_or_id_query_conditions",
                value |-> model, table |-> "ModelSchema"]]

\* Lines 680-700 with the model filter put first
get_custom_filters_ModelFirst(parent_filters, model) ==
    IF TruthyStr(model) THEN <<ModelFilter(model)>> \o parent_filters
    ELSE parent_filters

\* Lines 680-700, parent_filters being super().get_custom_filters(table)
get_custom_filters(parent_filters, model) ==
    IF TruthyStr(model) THEN Append(parent_filters, ModelFilter(model))
    ELSE parent_filters

\* Most filters the parent classes return
MaxParentFilters == 2

ParentFilters ==
    {[op |-> "parent", of |-> "user"], [op |-> "parent", of |-> "run_metadata"]}

ParentFilterLists ==
    UNION {Tuples(ParentFilters, n) : n \in 0..MaxParentFilters}

\* The `model` field: unset, empty, a name, an id
FilterModels == {None, "", "my_model", "7f1c9a52-0d3b-4c1e-9a66-5b2f0e8d4a10"}

StepRunFilters ==
    [kind : {"StepRunFilter"}, name : {None, "trainer"}, model : FilterModels,
     parent_filters : ParentFilterLists]

\* A call of get_custom_filters
GetCustomFilters ==
    /\ sr_fn = "get_custom_filters"
    /\ sr_out = Pending
    /\ sr_out' = Return(get_custom_filters(sr_obj.parent_filters, sr_obj.model))
    /\ UNCHANGED <<sr_fn, sr_obj>>
    /\ UNCHANGED <<varsFS, varsSF, varsPR, varsWK>>

\* A property of a step run is about to be read, or a filter is about to be
\* asked for its custom filters
InitStepRun ==
    /\ sr_out = Pending
    /\ \/ /\ sr_fn \in {"input", "regular_inputs"}
          /\ \E n \in 0..MaxNames : \E d \in InputsOf(n) :
                sr_obj = [kind |-> "StepRunResponse", inputs |-> d,
                          outputs |-> <<>>]
       \/ /\ sr_fn \in {"output", "regular_outputs"}
          /\ \E n \in 0..MaxNames : \E d \in OutputsOf(n) :
                sr_obj = [kind |-> "StepRunResponse", inputs |-> <<>>,
                          outputs |-> d]
       \/ /\ sr_fn = "get_custom_filters"
          /\ sr_obj \in StepRunFilters

StepRunInput ==
    /\ sr_fn = "input"
    /\ sr_out = Pending
    /\ sr_out' = input(sr_obj.inputs)
    /\ UNCHANGED <<sr_fn, sr_obj>>
    /\ UNCHANGED <<varsFS, varsSF, varsPR, varsWK>>

StepRunOutput ==
    /\ sr_fn = "output"
    /\ sr_out = Pending
    /\ sr_out' = output(sr_obj.outputs)
    /\ UNCHANGED <<sr_fn, sr_obj>>
    /\ UNCHANGED <<varsFS, varsSF, varsPR, varsWK>>

StepRunRegularInputs ==
    /\ sr_fn = "regular_inputs"
    /\ sr_out = Pending
    /\ sr_out' = regular_inputs(sr_obj.inputs)
    /\ UNCHANGED <<sr_fn, sr_obj>>
    /\ UNCHANGED <<varsFS, varsSF, varsPR, varsWK>>

StepRunRegularOutputs ==
    /\ sr_fn = "regular_outputs"
    /\ sr_out = Pending
    /\ sr_out' = regular_outputs(sr_obj.outputs)
    /\ UNCHANGED <<sr_fn, sr_obj>>
    /\ UNCHANGED <<varsFS, varsSF, varsPR, varsWK>>

NextStepRun ==
    \/ StepRunInput
    \/ StepRunOutput
    \/ StepRunRegularInputs
    \/ StepRunRegularOutputs
    \/ GetCustomFilters

\* No string function is under call
IdleSF ==
    /\ sf_fn = None
    /\ sf_in = None
    /\ sf_inner = Pending
    /\ sf_out = Pending

\* No StepRunResponse property and no filter method is under call
IdleSR ==
    /\ sr_fn = None
    /\ sr_obj = None
    /\ sr_out = Pending

(***************************************************************************)
(* Specifications                                                          *)
(***************************************************************************)

InitSpecStatus == InitFS /\ IdleSF /\ IdlePR /\ IdleSR

SpecStatus == InitSpecStatus /\ [][NextFS]_vars

InitSpecArn == InitArn /\ IdleFS /\ IdlePR /\ IdleSR

SpecArn == InitSpecArn /\ [][NextArn]_vars

InitSpecSched == InitSched /\ IdleFS /\ IdlePR /\ IdleSR

SpecSched == InitSpecSched /\ [][NextSched]_vars

InitSpecRun == InitPR /\ IdleFS /\ IdleSF /\ IdleSR

SpecRun == InitSpecRun /\ [][NextPR]_vars

InitSpecCron == InitCron /\ IdleFS /\ IdlePR /\ IdleSR

SpecCron == InitSpecCron /\ [][NextCron]_vars

InitSpecMeta == InitMeta /\ IdleFS /\ IdlePR /\ IdleSR

SpecMeta == InitSpecMeta /\ [][NextMeta]_vars

InitSpecStepRun == InitStepRun /\ IdleFS /\ IdleSF /\ IdlePR

SpecStepRun == InitSpecStepRun /\ [][NextStepRun]_vars

(***************************************************************************)
(* C1: fetch_status is a total lookup on the remote status: it returns     *)
(* RUNNING for 'Executing' and 'Stopping', FAILED for 'Stopped' and        *)
(* 'Failed', COMPLETED for 'Succeeded', raises ValueError for every other  *)
(* status, and returns no other ExecutionStatus.                           *)
(***************************************************************************)
C1_StatusLookup ==
    (fs_pc = "done" /\ fs_status # None) =>
        /\ fs_status \in {"Executing", "Stopping"} => fs_result = Return("running")
        /\ fs_status \in {"Stopped", "Failed"} => fs_result = Return("failed")
        /\ fs_status = "Succeeded" => fs_result = Return("completed")
        /\ fs_status \notin {"Executing", "Stopping", "Stopped", "Failed", "Succeeded"}
              => fs_result = Raise("ValueError")
        /\ fs_result.kind = "return" =>
              fs_result.value \in {"running", "failed", "completed"}

\* fetch_status answered RUNNING for a pipeline that is stopping
C1_Witness ==
    /\ fs_pc = "done"
    /\ fs_status = "Stopping"
    /\ fs_result = Return("running")

(***************************************************************************)
(* C2: the ARN queried remotely is the run metadata entry                  *)
(* METADATA_ORCHESTRATOR_RUN_ID whenever that key is present (also when    *)
(* run.orchestrator_run_id is set), otherwise run.orchestrator_run_id when *)
(* it is not None; when neither is available describe_pipeline_execution   *)
(* is never called and the lookup raises ValueError; when run.stack is     *)
(* None a ValueError is raised before any session is created.  The lookup  *)
(* is reached once the stack check, the ownership assertion and the        *)
(* session creation have passed (fs_sessions = 1).                         *)
(***************************************************************************)
C2_HasMetadataId == METADATA_ORCHESTRATOR_RUN_ID \in DOMAIN fs_run.run_metadata

C2_NoRunId == ~C2_HasMetadataId /\ fs_run.orchestrator_run_id = None

C2_RunIdChoice ==
    /\ Len(fs_describe) <= 1
    /\ \A i \in DOMAIN fs_describe :
          /\ C2_HasMetadataId =>
                fs_describe[i] = fs_run.run_metadata[METADATA_ORCHESTRATOR_RUN_ID]
          /\ ~C2_HasMetadataId =>
                /\ fs_run.orchestrator_run_id # None
                /\ fs_describe[i] = fs_run.orchestrator_run_id
    /\ (fs_pc \in {"map", "done"} /\ fs_sessions = 1 /\ ~C2_NoRunId)
          => Len(fs_describe) = 1
    /\ C2_NoRunId => fs_describe = <<>>
    /\ (C2_NoRunId /\ fs_pc = "done") => fs_result.kind = "raise"
    /\ (C2_NoRunId /\ fs_pc = "done" /\ fs_sessions = 1)
          => fs_result = Raise("ValueError")
    /\ (fs_run.stack = None /\ fs_pc = "done")
          => (fs_result = Raise("ValueError") /\ fs_sessions = 0)
    /\ fs_run.stack = None => (fs_sessions = 0 /\ fs_describe = <<>>)

\* Both ids are present and differ, and the metadata entry was queried
C2_Witness ==
    /\ C2_HasMetadataId
    /\ fs_run.orchestrator_run_id # None
    /\ fs_run.orchestrator_run_id # fs_run.run_metadata[METADATA_ORCHESTRATOR_RUN_ID]
    /\ fs_describe = <<fs_run.run_metadata[METADATA_ORCHESTRATOR_RUN_ID]>>
    /\ fs_pc = "done"

(***************************************************************************)
(* C3: for every ARN 'arn:aws:sagemaker:REGION:ACCOUNT:pipeline/NAME/      *)
(* execution/ID', dissect_pipeline_execution_arn returns exactly           *)
(* (REGION, NAME, ID); for any other input each component whose pattern    *)
(* does not occur is None, and the function never raises.                  *)
(***************************************************************************)
C3_RegionPatternOccurs(s) ==
    \E i \in 1..Len(s) : \E j \in 1..Len(s) :
        OccursAt(s, "sagemaker:", i) /\ j >= i + 10 /\ OccursAt(s, ":", j)

C3_PipelinePatternOccurs(s) ==
    \E i \in 1..Len(s) : \E j \in 1..Len(s) :
        OccursAt(s, "pipeline/", i) /\ j >= i + 9 /\ OccursAt(s, "/execution", j)

C3_ExecutionPatternOccurs(s) ==
    \E i \in 1..Len(s) : OccursAt(s, "execution/", i)

C3_DissectExecutionArn ==
    (sf_fn = "dissect_pipeline_execution_arn" /\ sf_out # Pending) =>
        /\ sf_out.kind = "return"
        /\ sf_in.form.kind = "arn" =>
              sf_out.value = <<sf_in.form.region, sf_in.form.name, sf_in.form.id>>
        /\ sf_in.form.kind = "other" =>
              /\ ~C3_RegionPatternOccurs(sf_in.arg) => sf_out.value[1] = None
              /\ ~C3_PipelinePatternOccurs(sf_in.arg) => sf_out.value[2] = None
              /\ ~C3_ExecutionPatternOccurs(sf_in.arg) => sf_out.value[3] = None

\* What remains true: region and pipeline name are always recovered, and
\* the execution id whenever the pipeline name does not end in "execution"
C3_DissectExecutionArnBut ==
    (sf_fn = "dissect_pipeline_execution_arn" /\ sf_out # Pending) =>
        /\ sf_out.kind = "return"
        /\ sf_in.form.kind = "arn" =>
              /\ sf_out.value[1] = sf_in.form.region
              /\ sf_out.value[2] = sf_in.form.name
              /\ ~Contains(sf_in.form.name \o "/", "execution/")
                    => sf_out.value[3] = sf_in.form.id

(***************************************************************************)
(* C4: for every schedule ARN                                              *)
(* 'arn:PARTITION:scheduler:REGION:ACCOUNT:schedule/GROUP/NAME',           *)
(* dissect_schedule_arn returns (REGION, 'GROUP/NAME'): the complete text  *)
(* behind the leading 'schedule/', for every group and schedule name.      *)
(***************************************************************************)
C4_DissectScheduleArn ==
    (sf_fn = "dissect_schedule_arn" /\ sf_out # Pending
        /\ sf_in.form.kind = "schedule") =>
        sf_out = Return(<<sf_in.form.region,
                          sf_in.form.group \o "/" \o sf_in.form.name>>)

(***************************************************************************)
(* C5: dissect_schedule_arn raises ValueError exactly when the input has   *)
(* fewer than 6 colon-separated parts or its 6th part does not start with  *)
(* 'schedule/'; otherwise it returns a (region, name) pair, and            *)
(* generate_schedule_metadata then returns a dictionary whose single key   *)
(* 'trigger_url' is built from that region and name.                       *)
(***************************************************************************)
C5_Colons(s) == {i \in 1..Len(s) : Sub(s, i, i) = ":"}

\* The position of the k-th colon of s
C5_Colon(s, k) ==
    CHOOSE i \in C5_Colons(s) : Cardinality({j \in C5_Colons(s) : j <= i}) = k

\* Fewer than 6 parts, or a 6th part that does not start with 'schedule/'
C5_Malformed(s) ==
    \/ Cardinality(C5_Colons(s)) < 5
    \/ LET c == C5_Colon(s, 5) IN
          \/ c + 9 > Len(s)
          \/ Sub(s, c + 1, c + 9) # "schedule/"

C5_TriggerUrl(region, name) ==
    "https://" \o region \o ".console.aws.amazon.com/scheduler/home?region="
        \o region \o "#schedules/" \o name

C5_ScheduleArnErrors ==
    /\ (sf_fn = "dissect_schedule_arn" /\ sf_out # Pending) =>
          IF C5_Malformed(sf_in.arg)
          THEN sf_out = Raise("ValueError")
          ELSE /\ sf_out.kind = "return"
               /\ Len(sf_out.value) = 2
               /\ sf_out.value[1] =
                     Sub(sf_in.arg, C5_Colon(sf_in.arg, 3) + 1,
                         C5_Colon(sf_in.arg, 4) - 1)
    /\ (sf_fn = "generate_schedule_metadata" /\ sf_inner # Pending) =>
          IF C5_Malformed(sf_in.arg)
          THEN sf_inner = Raise("ValueError") /\ sf_out = Raise("ValueError")
          ELSE /\ sf_inner.kind = "return"
               /\ sf_out # Pending =>
                     /\ sf_out.kind = "return"
                     /\ DOMAIN sf_out.value = {"trigger_url"}
                     /\ sf_out.value["trigger_url"] =
                           C5_TriggerUrl(sf_inner.value[1], sf_inner.value[2])

\* A six-part schedule ARN was dissected and the metadata built from the
\* pair it returned
C5_Witness ==
    /\ sf_fn = "generate_schedule_metadata"
    /\ sf_in.arg = "arn:aws:scheduler:eu:1:schedule/default/n"
    /\ sf_out = Return([k \in {"trigger_url"} |->
          "https://eu.console.aws.amazon.com/scheduler/home?region=eu#schedules/default/n"])

(***************************************************************************)
(* Claims about prepare_or_run_pipeline and the worker (SpecRun)           *)
(***************************************************************************)

\* The positions of the calls of operation op in the log of calls
Calls(op) == {c \in DOMAIN pr_calls : pr_calls[c].op = op}

\* The positions control can be at once pipeline.create has returned and
\* nothing has been raised
C17_AfterCreate ==
    {"schedule", "role", "put_triggers", "schedule_metadata", "log", "start",
     "metadata", "wait", "waiting", "done"}

\* C17: pipeline.create is called exactly once, before any trigger is
\* attached and before any execution is started; with a schedule a trigger
\* is attached, pipeline.start is never called and no run metadata is
\* yielded; without a schedule pipeline.start is called exactly once,
\* put_triggers never, and the run metadata of that execution is yielded
\* (for calls that get through the step loop; a call that raises before has
\* made none of these calls)
C17_CreateBeforeTriggerOrStart ==
    /\ Cardinality(Calls("create")) <= 1
    /\ pr_pc \in C17_AfterCreate => Cardinality(Calls("create")) = 1
    /\ \A c \in Calls("put_triggers") \cup Calls("start") \cup Calls("yield") :
          \E k \in Calls("create") : k < c
    /\ pr_in.schedule.present =>
          /\ Calls("start") = {}
          /\ Calls("yield") = {}
          /\ Cardinality(Calls("put_triggers")) <= 1
          /\ pr_pc = "done" => Cardinality(Calls("put_triggers")) = 1
    /\ ~pr_in.schedule.present =>
          /\ Calls("put_triggers") = {}
          /\ Cardinality(Calls("start")) <= 1
          /\ Cardinality(Calls("yield")) <= 1
          /\ \A y \in Calls("yield") :
                /\ \E s \in Calls("start") : s < y
                /\ pr_calls[y].metadata["pipeline_execution_arn"]
                      = pr_loc.execution_arn
                /\ pr_calls[y].metadata["orchestrator_run_id"]
                      = pr_loc.execution_arn
          /\ pr_pc = "done" =>
                /\ Cardinality(Calls("start")) = 1
                /\ Cardinality(Calls("yield")) = 1

\* C17 witness: a deployment of two steps without a schedule ended after
\* create, start and the yield of the metadata, in this order
C17_Witness ==
    /\ pr_pc = "done"
    /\ ~pr_in.schedule.present
    /\ Len(pr_steps) = 2
    /\ Len(pr_calls) = 3
    /\ pr_calls[1].op = "create"
    /\ pr_calls[2].op = "start"
    /\ pr_calls[3].op = "yield"

\* C6, first half: no string value handed to a step is longer than the size
\* limit (the run id is a pipeline variable and no string)
C6_ValueLengths ==
    \A i \in DOMAIN pr_steps :
       \A k \in DOMAIN pr_steps[i].environment :
          \/ pr_steps[i].environment[k] = PIPELINE_EXECUTION_ARN
          \/ Len(pr_steps[i].environment[k]) <= SizeLimit

\* C6, second half: on the worker of a step, after the chunks have been
\* joined, every variable of the step's settings has the value the settings
\* give it, and every variable of the base environment that no step's
\* settings set has the value the base environment gives it
C6_Reconstructed ==
    wk_environ.step > 0 =>
       LET own == pr_in.steps[wk_environ.step].settings.environment
           anySet == UNION {DOMAIN pr_in.steps[j].settings.environment :
                              j \in DOMAIN pr_in.steps}
       IN /\ \A k \in DOMAIN own \ {ENV_ZENML_SAGEMAKER_RUN_ID} :
                /\ k \in DOMAIN wk_environ.environ
                /\ wk_environ.environ[k] = own[k]
          /\ \A k \in (DOMAIN pr_in.environment \ anySet)
                         \ {ENV_ZENML_SAGEMAKER_RUN_ID} :
                /\ k \in DOMAIN wk_environ.environ
                /\ wk_environ.environ[k] = pr_in.environment[k]

\* C6: environment-variable chunking respects the size limit and is
\* lossless: no string value handed to a step is longer than the limit, and
\* joining the chunks of a variable on the worker gives its original value
C6_ChunkingLossless == C6_ValueLengths /\ C6_Reconstructed

\* C7: the call waits for the execution exactly when the deployment has no
\* schedule and settings.synchronous is true: then, once the metadata has
\* been yielded, execution.wait is called once with delay=30 and
\* max_attempts=100, and a WaiterError becomes a RuntimeError; a scheduled
\* or asynchronous call never waits
\* (for calls that get as far as starting the execution)
C7_WaitExactlyWhenSynchronous ==
    /\ Cardinality(Calls("wait")) <= 1
    /\ \A w \in Calls("wait") :
          /\ pr_calls[w].delay = 30
          /\ pr_calls[w].max_attempts = 100
          /\ \E y \in Calls("yield") : y < w
          /\ ~pr_in.schedule.present
          /\ pr_in.settings.synchronous
          /\ pr_calls[w].outcome = "waiting"
                => pr_pc = "waiting" /\ pr_result = Pending
          /\ pr_calls[w].outcome = "WaiterError"
                => pr_pc = "raised" /\ pr_result = Raise("RuntimeError")
          /\ pr_calls[w].outcome = "finished"
                => pr_pc = "done" /\ pr_result = Return(None)
    /\ (/\ pr_pc \in {"done", "raised"}
        /\ Calls("yield") # {}
        /\ ~pr_in.schedule.present
        /\ pr_in.settings.synchronous) => Calls("wait") # {}

\* C7 witness: a synchronous unscheduled call yielded its metadata, waited,
\* got a WaiterError and ended with a RuntimeError
C7_Witness ==
    /\ pr_pc = "raised"
    /\ pr_result = Raise("RuntimeError")
    /\ ~pr_in.schedule.present
    /\ pr_in.settings.synchronous
    /\ Len(pr_calls) = 4
    /\ pr_calls[3].op = "yield"
    /\ pr_calls[4].op = "wait"
    /\ pr_calls[4].outcome = "WaiterError"

\* C8: every step built has ZENML_SAGEMAKER_RUN_ID set to the pipeline
\* execution ARN variable, whatever the base environment or the step
\* settings say for that key, so every step's worker gets the ARN of the one
\* execution; get_orchestrator_run_id returns the variable's value, and
\* raises RuntimeError when the variable is unset
C8_RunIdFromExecutionArn ==
    /\ \A i \in DOMAIN pr_steps :
          /\ ENV_ZENML_SAGEMAKER_RUN_ID \in DOMAIN pr_steps[i].environment
          /\ pr_steps[i].environment[ENV_ZENML_SAGEMAKER_RUN_ID]
                = PIPELINE_EXECUTION_ARN
    /\ wk_result # Pending =>
          /\ wk_environ.step > 0 => wk_result = Return(pr_loc.execution_arn)
          /\ ENV_ZENML_SAGEMAKER_RUN_ID \in DOMAIN wk_environ.environ
                => wk_result =
                      Return(wk_environ.environ[ENV_ZENML_SAGEMAKER_RUN_ID])
          /\ ENV_ZENML_SAGEMAKER_RUN_ID \notin DOMAIN wk_environ.environ
                => wk_result = Raise("RuntimeError")

\* What remains true of C8: every step built has the variable set to the
\* pipeline execution ARN, get_orchestrator_run_id returns the value the
\* process has for the variable and raises RuntimeError without it, and the
\* worker of a step that was handed no chunk of ZENML_SAGEMAKER_RUN_ID gets
\* the ARN of the execution
C8_RunIdFromExecutionArnBut ==
    /\ \A i \in DOMAIN pr_steps :
          /\ ENV_ZENML_SAGEMAKER_RUN_ID \in DOMAIN pr_steps[i].environment
          /\ pr_steps[i].environment[ENV_ZENML_SAGEMAKER_RUN_ID]
                = PIPELINE_EXECUTION_ARN
    /\ wk_result # Pending =>
          /\ (/\ wk_environ.step > 0
              /\ \A k \in DOMAIN pr_steps[wk_environ.step].environment :
                    ~(IsChunkKey(k)
                      /\ ChunkedVariable(k) = ENV_ZENML_SAGEMAKER_RUN_ID))
                => wk_result = Return(pr_loc.execution_arn)
          /\ ENV_ZENML_SAGEMAKER_RUN_ID \in DOMAIN wk_environ.environ
                => wk_result =
                      Return(wk_environ.environ[ENV_ZENML_SAGEMAKER_RUN_ID])
          /\ ENV_ZENML_SAGEMAKER_RUN_ID \notin DOMAIN wk_environ.environ
                => wk_result = Raise("RuntimeError")

\* C8 witness: the base environment and the settings of the second step both
\* set ZENML_SAGEMAKER_RUN_ID, and get_orchestrator_run_id on the worker of
\* that step returned the ARN of the execution
C8_Witness ==
    /\ wk_environ.step = 2
    /\ ENV_ZENML_SAGEMAKER_RUN_ID \in DOMAIN pr_in.environment
    /\ ENV_ZENML_SAGEMAKER_RUN_ID
          \in DOMAIN pr_in.steps[2].settings.environment
    /\ wk_result = Return(pr_loc.execution_arn)

\* The characters a sanitized run name keeps
C9_Kept == "abcdefghijklmnopqrstuvwxyzABCDEFGHIJKLMNOPQRSTUVWXYZ0123456789-"

\* name is run_name with every character outside [a-zA-Z0-9-] made a "-"
C9_Sanitized(name, run_name) ==
    /\ Len(name) = Len(run_name)
    /\ \A j \in 1..Len(run_name) :
          SubSeq(name, j, j) =
             IF \E q \in 1..Len(C9_Kept) :
                   SubSeq(C9_Kept, q, q) = SubSeq(run_name, j, j)
             THEN SubSeq(run_name, j, j) ELSE "-"

\* C9: the schedule is a cron schedule when cron_expression is set, whatever
\* the other fields, else a rate schedule when interval_second is set, else
\* a one-time 'at' schedule; put_triggers gets exactly one PipelineSchedule,
\* enabled and named after the sanitized run name
\* ("set" as Python truth: a non-empty expression, a non-zero interval)
C9_SchedulePrecedence ==
    /\ Cardinality(Calls("put_triggers")) <= 1
    /\ \A c \in Calls("put_triggers") :
          LET triggers == pr_calls[c].triggers
              s == pr_in.schedule
          IN /\ s.present
             /\ Len(triggers) = 1
             /\ triggers[1].enabled = TRUE
             /\ C9_Sanitized(triggers[1].name, pr_in.run_name)
             /\ triggers[1].kind =
                   IF s.cron_expression \notin {None, ""} THEN "cron"
                   ELSE IF /\ s.interval_second # NoneValue
                           /\ s.interval_second.seconds # 0 THEN "rate"
                   ELSE "at"
    /\ (pr_in.schedule.present /\ pr_pc = "done") => Calls("put_triggers") # {}

\* C9 witness: a schedule with a cron expression, an interval and a one-time
\* start was attached as a cron schedule
C9_Witness ==
    /\ Calls("put_triggers") # {}
    /\ pr_in.run_name = "daily run.v2-3c4d"
    /\ pr_in.schedule.cron_expression = "cron(0 12 * * ? *)"
    /\ pr_in.schedule.interval_second = [seconds |-> 150]
    /\ pr_in.schedule.run_once_start_time # NoneValue
    /\ \E c \in Calls("put_triggers") :
          /\ pr_calls[c].triggers[1].kind = "cron"
          /\ pr_calls[c].triggers[1].name = "daily-run-v2-3c4d"

\* A schedule without a cron expression and without an interval
C10_IsOneTime ==
    /\ pr_in.schedule.present
    /\ pr_in.schedule.cron_expression \in {None, ""}
    /\ \/ pr_in.schedule.interval_second = NoneValue
       \/ pr_in.schedule.interval_second.seconds = 0

\* C10: a one-time schedule runs at run_once_start_time when that is set,
\* else at start_time; when neither is set the call raises ValueError,
\* put_triggers is never called and the pipeline is never started
\* (for calls that get as far as creating the pipeline)
C10_OneTimeSchedule ==
    C10_IsOneTime =>
       /\ \A c \in Calls("put_triggers") :
             /\ pr_calls[c].triggers[1].kind = "at"
             /\ pr_calls[c].triggers[1].at =
                   to_utc_timezone(
                      IF pr_in.schedule.run_once_start_time # NoneValue
                      THEN pr_in.schedule.run_once_start_time
                      ELSE pr_in.schedule.start_time)
       /\ Calls("start") = {}
       /\ (/\ pr_in.schedule.run_once_start_time = NoneValue
           /\ pr_in.schedule.start_time = NoneValue) =>
             /\ Calls("put_triggers") = {}
             /\ (/\ Calls("create") # {}
                 /\ pr_pc \notin {"create", "schedule"}) =>
                   pr_pc = "raised" /\ pr_result = Raise("ValueError")

\* C10 witness: with both times set and different, the schedule attached
\* runs at run_once_start_time
C10_Witness ==
    /\ C10_IsOneTime
    /\ pr_in.schedule.start_time # NoneValue
    /\ pr_in.schedule.run_once_start_time # NoneValue
    /\ pr_in.schedule.start_time # pr_in.schedule.run_once_start_time
    /\ pr_pc = "done"
    /\ \E c \in Calls("put_triggers") :
          pr_calls[c].triggers[1].at =
             to_utc_timezone(pr_in.schedule.run_once_start_time)

\* C18: a step with input_data_s3_uri None gets no inputs; a string URI
\* becomes one TrainingInput (training step) or one ProcessingInput with
\* destination '/opt/ml/processing/input/data' (processing step); a dict of
\* channel to URI becomes one input per channel, keyed by the channel for a
\* training step and with destination
\* '/opt/ml/processing/input/data/<channel>' for a processing step, so there
\* are as many inputs as channels
C18_InputChannels ==
    \A i \in DOMAIN pr_steps :
       LET uri == pr_in.steps[i].settings.input_data_s3_uri
           step == pr_steps[i]
           training == step.kind = "TrainingStep"
       IN /\ step.kind \in {"TrainingStep", "ProcessingStep"}
          /\ uri.type = "None" => step.inputs.type = "None"
          /\ (uri.type = "str" /\ training) =>
                /\ step.inputs.type = "TrainingInput"
                /\ step.inputs.s3_data = uri.uri
          /\ (uri.type = "str" /\ ~training) =>
                /\ step.inputs.type = "list"
                /\ Len(step.inputs.items) = 1
                /\ step.inputs.items[1].source = uri.uri
                /\ step.inputs.items[1].destination
                      = "/opt/ml/processing/input/data"
          /\ (uri.type = "dict" /\ training) =>
                /\ step.inputs.type = "dict"
                /\ Len(step.inputs.items) = Len(uri.items)
                /\ \A j \in DOMAIN uri.items :
                      Cardinality({k \in DOMAIN step.inputs.items :
                         /\ step.inputs.items[k].channel = uri.items[j].channel
                         /\ step.inputs.items[k].input.type = "TrainingInput"
                         /\ step.inputs.items[k].input.s3_data
                               = uri.items[j].uri}) = 1
          /\ (uri.type = "dict" /\ ~training) =>
                /\ step.inputs.type = "list"
                /\ Len(step.inputs.items) = Len(uri.items)
                /\ \A j \in DOMAIN uri.items :
                      Cardinality({k \in DOMAIN step.inputs.items :
                         /\ step.inputs.items[k].source = uri.items[j].uri
                         /\ step.inputs.items[k].destination
                               = "/opt/ml/processing/input/data/"
                                    \o uri.items[j].channel}) = 1

\* C18 witness: a processing step built from two channels has two inputs,
\* one destination per channel
C18_Witness ==
    /\ Len(pr_steps) = 1
    /\ pr_steps[1].kind = "ProcessingStep"
    /\ pr_in.steps[1].settings.input_data_s3_uri.type = "dict"
    /\ Len(pr_in.steps[1].settings.input_data_s3_uri.items) = 2
    /\ Len(pr_steps[1].inputs.items) = 2
    /\ pr_steps[1].inputs.items[1].destination
          = "/opt/ml/processing/input/data/train"
    /\ pr_steps[1].inputs.items[2].destination
          = "/opt/ml/processing/input/data/test"
    /\ pr_steps[1].inputs.items[2].source = "s3://in/test"

\* The step was given uri as a place to write to
C19_Reaches(step, uri) ==
    IF step.kind = "TrainingStep" THEN step.output_path = uri
    ELSE /\ step.outputs.type = "list"
         /\ \E k \in DOMAIN step.outputs.items :
               step.outputs.items[k].destination = uri

\* C19: every output S3 URI of step_settings.output_data_s3_uri reaches the
\* step created: a string URI as the Estimator's output_path (training
\* step) or as the destination of the one ProcessingOutput (processing
\* step), and every URI of a dict of channel to URI as well, for training
\* steps as for processing steps
C19_OutputUrisReachStep ==
    \A i \in DOMAIN pr_steps :
       LET uri == pr_in.steps[i].settings.output_data_s3_uri
           step == pr_steps[i]
       IN /\ uri.type = "str" =>
                /\ C19_Reaches(step, uri.uri)
                /\ step.kind = "ProcessingStep" => Len(step.outputs.items) = 1
          /\ uri.type = "dict" =>
                \A j \in DOMAIN uri.items : C19_Reaches(step, uri.items[j].uri)

\* What is left of C19: the same, with the dict case for processing steps
\* only; a training step built from a dict has no output_path
C19_OutputUrisReachStepBut ==
    \A i \in DOMAIN pr_steps :
       LET uri == pr_in.steps[i].settings.output_data_s3_uri
           step == pr_steps[i]
       IN /\ uri.type = "str" =>
                /\ C19_Reaches(step, uri.uri)
                /\ step.kind = "ProcessingStep" => Len(step.outputs.items) = 1
          /\ (uri.type = "dict" /\ step.kind = "ProcessingStep") =>
                /\ Len(step.outputs.items) = Len(uri.items)
                /\ \A j \in DOMAIN uri.items :
                      C19_Reaches(step, uri.items[j].uri)
          /\ (uri.type = "dict" /\ step.kind = "TrainingStep") =>
                step.output_path = None

(***************************************************************************)
(* Claims about _validate_cron_expression (SpecCron)                       *)
(***************************************************************************)

\* Whitespace as Python's str.split() understands it: the ten ASCII
\* characters, then U+0085, U+00A0 and U+1680
C11_Whitespace ==
    {" ", "\t", "\n", "\r", "\f", "", "", "", "", "",
     "", " ", " "}

\* The number of whitespace-separated fields of s: the positions where a
\* character that is no whitespace follows whitespace or starts the string
C11_FieldCount(s) ==
    Cardinality({i \in 1..Len(s) :
        /\ SubSeq(s, i, i) \notin C11_Whitespace
        /\ (i = 1 \/ SubSeq(s, i - 1, i - 1) \in C11_Whitespace)})

\* C11: _validate_cron_expression takes every 'cron(' and every ')' out of
\* its input and returns what remains, unchanged, exactly when that has 6 or
\* 7 whitespace-separated fields; for every other number of fields, the
\* standard 5 included, it raises ValueError
C11_CronValidation ==
    sf_out # Pending =>
       /\ sf_out = IF C11_FieldCount(sf_in.form.stripped) \in {6, 7}
                   THEN Return(sf_in.form.stripped)
                   ELSE Raise("ValueError")
       /\ sf_out.kind = "return" =>
             \A i \in 1..Len(sf_out.value) : SubSeq(sf_out.value, i, i) # ")"

\* C11 witness: 'cron(0 12 * * ? *)' came back as '0 12 * * ? *'
C11_Witness ==
    /\ sf_in.arg = "cron(0 12 * * ? *)"
    /\ sf_out = Return("0 12 * * ? *")

(***************************************************************************)
(* Claims about compute_metadata (SpecMeta)                                *)
(***************************************************************************)

\* C16: compute_metadata yields exactly one dictionary for any execution ARN
\* and never raises; the dictionary has 'pipeline_execution_arn' and
\* METADATA_ORCHESTRATOR_RUN_ID, both the given ARN, and has the key of the
\* orchestrator URL (of the logs URL) only when that URL could be computed:
\* an exception inside either computation gives None for that URL
C16_MetadataNeverRaises ==
    sf_out # Pending =>
       /\ sf_out.kind = "return"
       /\ Len(sf_out.value) = 1
       /\ LET metadata == sf_out.value[1] IN
          /\ DOMAIN metadata \subseteq
                {"pipeline_execution_arn", "orchestrator_run_id",
                 "orchestrator_url", "orchestrator_logs_url"}
          /\ "pipeline_execution_arn" \in DOMAIN metadata
          /\ metadata["pipeline_execution_arn"] = sf_in.arg
          /\ "orchestrator_run_id" \in DOMAIN metadata
          /\ metadata["orchestrator_run_id"] = sf_in.arg
          /\ "orchestrator_url" \in DOMAIN metadata
                <=> (sf_in.arg # None /\ sf_inner # "error")
          /\ "orchestrator_logs_url" \in DOMAIN metadata <=> sf_in.arg # None
          /\ \A k \in DOMAIN metadata : metadata[k] # None \/ sf_in.arg = None

\* C16 witness: the Studio domain could not be looked up; the dictionary has
\* the ARN twice and the logs URL, and no orchestrator URL
C16_Witness ==
    /\ sf_out.kind = "return"
    /\ sf_in.arg = "arn:aws:sagemaker:eu:1:pipeline/p/execution/a"
    /\ sf_inner = "error"
    /\ DOMAIN sf_out.value[1] =
          {"pipeline_execution_arn", "orchestrator_run_id",
           "orchestrator_logs_url"}

(***************************************************************************)
(* Claims about StepRunResponse (SpecStepRun)                              *)
(***************************************************************************)

\* The dictionary the property under call reads
C12_Dict == IF sr_fn = "input" THEN sr_obj.inputs ELSE sr_obj.outputs

\* C12: input (and output) returns the single artifact when the step has
\* exactly one input (output) name holding exactly one artifact, and raises
\* ValueError in every other case, a name with an empty list included
C12_SingleArtifact ==
    (sr_fn \in {"input", "output"} /\ sr_out # Pending) =>
       sr_out = IF Len(C12_Dict) = 1 /\ Len(C12_Dict[1].artifacts) = 1
                THEN Return(C12_Dict[1].artifacts[1])
                ELSE Raise("ValueError")

\* What is left of C12: as above, but for one name with an empty list the
\* property raises IndexError
C12_SingleArtifactBut ==
    (sr_fn \in {"input", "output"} /\ sr_out # Pending) =>
       sr_out = IF Len(C12_Dict) = 1 /\ Len(C12_Dict[1].artifacts) = 1
                THEN Return(C12_Dict[1].artifacts[1])
                ELSE IF Len(C12_Dict) = 1 /\ C12_Dict[1].artifacts = <<>>
                THEN Raise("IndexError")
                ELSE Raise("ValueError")

\* The positions of the artifacts of an item that are not MANUAL inputs
C13_NotManual(item) ==
    {j \in DOMAIN item.artifacts : item.artifacts[j].input_type # "manual"}

\* C13: regular_inputs maps each input name to its one artifact that is not
\* MANUAL; a name with only MANUAL artifacts, or none, is absent; a name
\* with more than one artifact that is not MANUAL makes the property raise
\* ValueError; the keys of the result are keys of inputs
C13_RegularInputs ==
    (sr_fn = "regular_inputs" /\ sr_out # Pending) =>
       LET d == sr_obj.inputs IN
       IF \E i \in DOMAIN d : Cardinality(C13_NotManual(d[i])) > 1
       THEN sr_out = Raise("ValueError")
       ELSE /\ sr_out.kind = "return"
            /\ \A i \in DOMAIN d :
                  LET entries == {e \in DOMAIN sr_out.value :
                                     sr_out.value[e].name = d[i].name}
                  IN IF C13_NotManual(d[i]) = {} THEN entries = {}
                     ELSE /\ Cardinality(entries) = 1
                          /\ \A e \in entries : \A j \in C13_NotManual(d[i]) :
                                sr_out.value[e].artifact = d[i].artifacts[j]
            /\ \A e \in DOMAIN sr_out.value :
                  \E i \in DOMAIN d : d[i].name = sr_out.value[e].name

\* C13 witness: x holds a MANUAL and an EXTERNAL artifact, y a MANUAL one;
\* the result has x alone, with the EXTERNAL artifact
C13_Witness ==
    /\ sr_fn = "regular_inputs"
    /\ sr_obj.inputs =
          <<[name |-> "x", artifacts |->
                <<[id |-> "x1", input_type |-> "manual"],
                  [id |-> "x2", input_type |-> "external"]>>],
            [name |-> "y", artifacts |->
                <<[id |-> "y1", input_type |-> "manual"]>>]>>
    /\ sr_out = Return(<<[name |-> "x",
                          artifact |-> [id |-> "x2",
                                        input_type |-> "external"]]>>)

\* The positions of the artifacts of an item that were saved as step outputs
C14_StepOutputs(item) ==
    {j \in DOMAIN item.artifacts : item.artifacts[j].save_type = "step_output"}

\* C14: regular_outputs maps each output name to its one artifact whose
\* save_type is STEP_OUTPUT; artifacts of any other save type are ignored; a
\* name without a STEP_OUTPUT artifact is absent; a name with more than one
\* makes the property raise ValueError
C14_RegularOutputs ==
    (sr_fn = "regular_outputs" /\ sr_out # Pending) =>
       LET d == sr_obj.outputs IN
       IF \E i \in DOMAIN d : Cardinality(C14_StepOutputs(d[i])) > 1
       THEN sr_out = Raise("ValueError")
       ELSE /\ sr_out.kind = "return"
            /\ \A i \in DOMAIN d :
                  LET entries == {e \in DOMAIN sr_out.value :
                                     sr_out.value[e].name = d[i].name}
                  IN IF C14_StepOutputs(d[i]) = {} THEN entries = {}
                     ELSE /\ Cardinality(entries) = 1
                          /\ \A e \in entries : \A j \in C14_StepOutputs(d[i]) :
                                sr_out.value[e].artifact = d[i].artifacts[j]
            /\ \A e \in DOMAIN sr_out.value :
                  \E i \in DOMAIN d : d[i].name = sr_out.value[e].name

\* C14 witness: x holds an EXTERNAL and a STEP_OUTPUT artifact, y two that
\* are not STEP_OUTPUT; the result has x alone, with the STEP_OUTPUT artifact
C14_Witness ==
    /\ sr_fn = "regular_outputs"
    /\ sr_obj.outputs =
          <<[name |-> "x", artifacts |->
                <<[id |-> "x1", save_type |-> "external"],
                  [id |-> "x2", save_type |-> "step_output"]>>],
            [name |-> "y", artifacts |->
                <<[id |-> "y1", save_type |-> "manual"],
                  [id |-> "y2", save_type |-> "external"]>>]>>
    /\ sr_out = Return(<<[name |-> "x",
                          artifact |-> [id |-> "x2",
                                        save_type |-> "step_output"]]>>)

\* C15: get_custom_filters returns the parent classes' custom filters
\* unchanged and in order, followed by exactly one model filter (step run
\* joined to model version joined to model, matched by name or id) when
\* `model` is set and by nothing when it is unset; `model` is in
\* FILTER_EXCLUDE_FIELDS, so it is never a plain column filter
\* ("set" as the code tests it: neither None nor empty)
C15_CustomFilters ==
    (sr_fn = "get_custom_filters" /\ sr_out # Pending) =>
       LET parents == sr_obj.parent_filters
           filters == sr_out.value
       IN /\ sr_out.kind = "return"
          /\ Len(filters) = Len(parents)
                + (IF sr_obj.model \in {None, ""} THEN 0 ELSE 1)
          /\ \A i \in DOMAIN parents : filters[i] = parents[i]
          /\ sr_obj.model \notin {None, ""} =>
                LET last == filters[Len(filters)] IN
                /\ last.op = "and_"
                /\ last.first
                      = "StepRunSchema.model_version_id == ModelVersionSchema.id"
                /\ last.second = "ModelVersionSchema.model_id == ModelSchema.id"
                /\ last.third.value = sr_obj.model
                /\ last.third.table = "ModelSchema"
          /\ \E i \in DOMAIN FILTER_EXCLUDE_FIELDS :
                FILTER_EXCLUDE_FIELDS[i] = "model"
          /\ "model" \notin ColumnFilterFields(sr_obj)

\* C15 witness: two parent filters and model 'my_model': the two filters,
\* then the model filter
C15_Witness ==
    /\ sr_fn = "get_custom_filters"
    /\ sr_obj.model = "my_model"
    /\ sr_obj.name = "trainer"
    /\ sr_obj.parent_filters = <<[op |-> "parent", of |-> "user"],
                                 [op |-> "parent", of |-> "run_metadata"]>>
    /\ sr_out.kind = "return"
    /\ Len(sr_out.value) = 3
    /\ sr_out.value[3].op = "and_"
    /\ ColumnFilterFields(sr_obj) = {"name"}

====
